---- MODULE Spec2Model ----
(***************************************************************************)
(* Model of the OpenJustice streaming client,                              *)
(* src/src/api/openjusticeApi.js: parseStatusLine, processEvent,           *)
(* startStream.                                                            *)
(*                                                                         *)
(* Strings are sequences of symbols.  A symbol is one character (space,    *)
(* newline, colon, parenthesis, the marker glyph) or a word the code never *)
(* looks inside ("OUTCOME", "Hello", "event:").  The marker glyph U+2501   *)
(* is written "=".  JavaScript's null and undefined are the one-symbol     *)
(* sequences Null and Undefined, which no text contains.                   *)
(***************************************************************************)
EXTENDS Naturals, Sequences, FiniteSets, TLC

VARIABLES
    pc,            \* position of the startStream call
    args,          \* startStream: the parameters conversationId, dialogFlowId
                   \* and executionId
    url,           \* query parameters of the stream-open request
    wire,          \* text sent by the server and not yet read
    closed,        \* the server has closed the connection
    nFrames,       \* frames the server has sent
    buffer,        \* startStream: let buffer
    pending,       \* startStream: events of the for loop not yet dispatched
    eof,           \* startStream: the read that returned done has happened
    fullResponse,  \* startStream: const fullResponse (the accumulator)
    updates,       \* onUpdate calls of the most recent processEvent
    caught,        \* the catch clause of the most recent processEvent ran
    cbMode,        \* behaviour of the caller's onUpdate callback
    world,         \* the environment of the call: the frames the server may
                   \* send, the resume tokens a caller may pass, and whether
                   \* the observers received and log are kept
    received,      \* observer: all text read so far
    log,           \* observer: all onUpdate calls so far
    orch,          \* the processTextMessage call around the stream: its
                   \* configuration and arguments, the requests it issued,
                   \* what they answered, its locals, the error it failed
                   \* with, what it returned
    probe,         \* a line given to parseStatusLine and what it returned
    other,         \* a second stream consumer, running at the same time
    ui             \* App: the state of the chat component and its
                   \* processTextMessage calls

vars == <<pc, args, url, wire, closed, nFrames, buffer, pending, eof, fullResponse,
          updates, caught, cbMode, world, received, log, orch, probe, other, ui>>

\* what a step of one stream consumer leaves alone
outside == <<orch, probe, other, ui>>

----------------------------------------------------------------------------
(* Bounds *)

\* symbols between the markers of a line given to parseStatusLine
MaxContent == 3
\* frames the server sends on one stream
MaxFrames == 3
\* unread symbols on the wire below which the server sends the next frame
MaxWire == 2

----------------------------------------------------------------------------
(* Symbols and values *)

NL == "\n"
SP == " "
Glyph == "="
\* number of glyphs in one marker of the status-line envelope
MarkerLen == 6

Null == <<"<null>">>
Undefined == <<"<undefined>">>
Num == <<"<number>">>

IsWs(c) == c \in {SP, NL}

\* JavaScript truthiness of a value that is a string, a number other than 0,
\* null or undefined
Truthy(v) == v # <<>> /\ v # Null /\ v # Undefined

\* a || b
Or(a, b) == IF Truthy(a) THEN a ELSE b

IsString(v) == v \notin {Null, Undefined, Num}

----------------------------------------------------------------------------
(* String operations *)

RECURSIVE TrimStart(_)
TrimStart(s) ==
    IF s # <<>> /\ IsWs(Head(s)) THEN TrimStart(Tail(s)) ELSE s

RECURSIVE TrimEnd(_)
TrimEnd(s) ==
    IF s # <<>> /\ IsWs(s[Len(s)]) THEN TrimEnd(SubSeq(s, 1, Len(s) - 1)) ELSE s

\* String.prototype.trim
Trim(s) == TrimEnd(TrimStart(s))

\* String.prototype.startsWith
StartsWith(s, p) == Len(s) >= Len(p) /\ SubSeq(s, 1, Len(p)) = p

\* String.prototype.substring(n)
Substring(s, n) == SubSeq(s, n + 1, Len(s))

\* String.prototype.includes
Includes(s, t) ==
    \E i \in 0..(Len(s) - Len(t)) : SubSeq(s, i + 1, i + Len(t)) = t

\* String.prototype.split(sep), sep non-empty: the pieces between the
\* non-overlapping occurrences of sep, found left to right
RECURSIVE SplitFrom(_, _, _)
SplitFrom(s, sep, cur) ==
    IF s = <<>> THEN <<cur>>
    ELSE IF StartsWith(s, sep)
         THEN <<cur>> \o SplitFrom(Substring(s, Len(sep)), sep, <<>>)
         ELSE SplitFrom(Tail(s), sep, Append(cur, Head(s)))

Split(s, sep) == SplitFrom(s, sep, <<>>)

\* Array.prototype.join
RECURSIVE Join(_, _)
Join(parts, sep) ==
    IF parts = <<>> THEN <<>>
    ELSE IF Len(parts) = 1 THEN parts[1]
    ELSE parts[1] \o sep \o Join(Tail(parts), sep)

\* lines.filter((line) => line.trim())
RECURSIVE NonBlank(_)
NonBlank(xs) ==
    IF xs = <<>> THEN <<>>
    ELSE (IF Trim(Head(xs)) # <<>> THEN <<Head(xs)>> ELSE <<>>) \o NonBlank(Tail(xs))

\* String.prototype.toUpperCase on the words the model uses
UpperWord(c) ==
    CASE c = "outcome" -> "OUTCOME"
      [] c = "switch" -> "SWITCH"
      [] OTHER -> c

ToUpperCase(s) == [i \in 1..Len(s) |-> UpperWord(s[i])]

IsPrefix(s, t) == Len(s) <= Len(t) /\ SubSeq(t, 1, Len(s)) = s

----------------------------------------------------------------------------
(* parseStatusLine *)

Marker == [i \in 1..MarkerLen |-> Glyph]

\* number of whitespace symbols of s from position i on
RECURSIVE WsRun(_, _)
WsRun(s, i) == IF i <= Len(s) /\ IsWs(s[i]) THEN 1 + WsRun(s, i + 1) ELSE 0

MarkerAt(s, i) ==
    i >= 1 /\ i + MarkerLen - 1 <= Len(s) /\ SubSeq(s, i, i + MarkerLen - 1) = Marker

\* \s+ followed by the marker, from position e on
ClosesAt(s, e) == WsRun(s, e) >= 1 /\ MarkerAt(s, e + WsRun(s, e))

\* starts of the marker followed by whitespace; positions where \s+marker
\* begins
Starts(s) == {i \in 1..Len(s) : MarkerAt(s, i) /\ WsRun(s, i + MarkerLen) >= 1}

Ends(s) == {e \in 1..Len(s) : ClosesAt(s, e)}

\* the ways /marker\s+(.+?)\s+marker/ matches s: i the start of the match, w
\* the whitespace taken by the first \s+, e the position after the capture.
\* A dot does not match a newline.
EnvelopeMatches(s) ==
    {m \in Starts(s) \X (1..Len(s)) \X Ends(s) :
        /\ m[2] <= WsRun(s, m[1] + MarkerLen)
        /\ m[3] > m[1] + MarkerLen + m[2]
        /\ \A k \in (m[1] + MarkerLen + m[2])..(m[3] - 1) : s[k] # NL}

MinOf(S) == CHOOSE x \in S : \A y \in S : x <= y
MaxOf(S) == CHOOSE x \in S : \A y \in S : x >= y

\* the capture of the match the regular-expression engine returns: leftmost
\* start i, then the greedy \s+ as long as possible (w), then the lazy capture
\* as short as possible (up to e)
CaptureUpTo(s, ms, i, w) ==
    SubSeq(s, i + MarkerLen + w,
           MinOf({m[3] : m \in {n \in ms : n[1] = i /\ n[2] = w}}) - 1)

CaptureFrom(s, ms, i) ==
    CaptureUpTo(s, ms, i, MaxOf({m[2] : m \in {n \in ms : n[1] = i}}))

Capture(s, ms) == CaptureFrom(s, ms, MinOf({m[1] : m \in ms}))

EnvelopeMatch(s) == Capture(s, EnvelopeMatches(s))

\* the ways /^(.+?)\s*\((.+?)\)$/ matches rest: t the length of the title
StatusMatchAt(rest, t, w) ==
    /\ t + w + 1 <= Len(rest)
    /\ rest[t + w + 1] = "("
    /\ Len(rest) >= t + w + 3
    /\ rest[Len(rest)] = ")"

StatusMatches(rest) ==
    {t \in 1..Len(rest) :
        /\ \A k \in 1..Len(rest) : rest[k] # NL
        /\ StatusMatchAt(rest, t, WsRun(rest, t + 1))}

NoStatus == [type |-> Null, title |-> Null, status |-> Null]

\* the record for a title of length t followed by w whitespace symbols and
\* the status in parentheses
WithStatus(type, rest, t, w) ==
    [type |-> type,
     title |-> Trim(SubSeq(rest, 1, t)),
     status |-> Trim(SubSeq(rest, t + w + 2, Len(rest) - 1))]

TitleLen(rest) == MinOf(StatusMatches(rest))

ParseRest(type, rest) ==
    IF StatusMatches(rest) # {}
    THEN WithStatus(type, rest, TitleLen(rest), WsRun(rest, TitleLen(rest) + 1))
    ELSE [type |-> type, title |-> rest, status |-> Null]

\* ParseParts keeping only the text up to the second colon
MutParsePartsDropsColons(parts) ==
    IF Len(parts) < 2 THEN NoStatus
    ELSE ParseRest(Trim(parts[1]), Trim(parts[2]))

ParseParts(parts) ==
    IF Len(parts) < 2 THEN NoStatus
    ELSE ParseRest(Trim(parts[1]), Trim(Join(Tail(parts), <<":">>)))

\* parseStatusLine(text); NoStatus stands for the result null
parseStatusLine(text) ==
    IF EnvelopeMatches(text) = {} THEN NoStatus
    ELSE ParseParts(Split(EnvelopeMatch(text), <<":">>))

----------------------------------------------------------------------------
(* JSON.parse *)

(* The JSON text of a payload is a sequence of lexemes: the braces and the  *)
(* comma, a key with its colon ("\"text\":"), the literals null and 5, and  *)
(* string literals.  A string literal is one symbol, "$...", and            *)
(* StringLiteral gives the string it denotes, with the escape \n decoded to *)
(* a newline.                                                               *)

StatusLine(type, title, status) ==
    Marker \o <<SP, type, ":", SP, title, SP, "(", status, ")", SP>> \o Marker

StringLiteral(tok) ==
    CASE tok = "$finHello" ->
             StatusLine("OUTCOME", "X", "Finished") \o <<NL, "Hello", SP>>
      [] tok = "$world" -> <<"world.">>
      [] tok = "$deciding" -> StatusLine("SWITCH", "X", "Deciding")
      [] tok = "$helloDeciding" ->
             <<"Hello", NL>> \o StatusLine("SWITCH", "X", "Deciding")
      [] tok = "$finThenDeciding" ->
             StatusLine("OUTCOME", "X", "Finished") \o <<NL, "Hello", NL>>
                 \o StatusLine("SWITCH", "X", "Deciding") \o <<NL, "world.">>
      [] tok = "$decidingThenFin" ->
             StatusLine("SWITCH", "X", "Deciding") \o <<NL, "Hello", NL>>
                 \o StatusLine("OUTCOME", "X", "Finished") \o <<NL, "world.">>
      [] tok = "$running" -> <<"running">>
      [] tok = "$completed" -> <<"completed">>
      [] tok = "$failed" -> <<"failed">>
      [] tok = "$outcome" -> <<"outcome">>
      [] tok = "$switch" -> <<"switch">>
      [] tok = "$title" -> <<"Switch">>
      [] tok = "$desc" -> <<"Deciding">>
      [] tok = "$e1" -> <<"E1">>
      [] tok = "$e2" -> <<"E2">>
      [] tok = "$q" -> <<"Which", SP, "one?">>
      [] tok = "$m" -> <<"Need", SP, "input">>
      [] tok = "$p" -> <<"Prompt">>
      [] tok = "$hello" -> <<"Hello", SP>>
      [] tok = "$empty" -> <<>>
      [] tok = "$sp" -> <<SP>>
      [] tok = "$finBlank" -> StatusLine("OUTCOME", "X", "Finished") \o <<NL, SP>>
      [] tok = "$helloFinWorld" ->
             <<"Hello", NL>> \o StatusLine("OUTCOME", "X", "Finished")
                 \o <<NL, "world.">>

StringLits ==
    {"$finHello", "$world", "$deciding", "$helloDeciding", "$finThenDeciding",
     "$decidingThenFin", "$running", "$completed", "$failed", "$outcome",
     "$switch", "$title", "$desc", "$e1", "$e2", "$q", "$m", "$p", "$hello",
     "$empty", "$sp", "$finBlank", "$helloFinWorld"}

Keys ==
    {"\"text\":", "\"status\":", "\"nodeType\":", "\"title\":",
     "\"description\":", "\"executionId\":", "\"message\":", "\"question\":",
     "\"prompt\":"}

\* the value JSON.parse gives for "{}"; kind tells an object from null and
\* from a number
EmptyObject ==
    [kind |-> "object", text |-> Undefined, status |-> Undefined,
     nodeType |-> Undefined, title |-> Undefined, description |-> Undefined,
     executionId |-> Undefined, message |-> Undefined, question |-> Undefined,
     prompt |-> Undefined]

ValueOf(tok) ==
    CASE tok \in StringLits -> StringLiteral(tok)
      [] tok = "null" -> Null
      [] tok = "5" -> Num

IsValue(tok) == tok \in StringLits \cup {"null", "5"}

SetMember(obj, key, v) ==
    CASE key = "\"text\":" -> [obj EXCEPT !.text = v]
      [] key = "\"status\":" -> [obj EXCEPT !.status = v]
      [] key = "\"nodeType\":" -> [obj EXCEPT !.nodeType = v]
      [] key = "\"title\":" -> [obj EXCEPT !.title = v]
      [] key = "\"description\":" -> [obj EXCEPT !.description = v]
      [] key = "\"executionId\":" -> [obj EXCEPT !.executionId = v]
      [] key = "\"message\":" -> [obj EXCEPT !.message = v]
      [] key = "\"question\":" -> [obj EXCEPT !.question = v]
      [] key = "\"prompt\":" -> [obj EXCEPT !.prompt = v]

SyntaxError == [ok |-> FALSE, value |-> EmptyObject]

\* the members of an object after the opening brace: key value, separated by
\* commas, up to the closing brace, which ends the text
RECURSIVE Members(_, _)
Members(toks, obj) ==
    IF Len(toks) < 3 \/ toks[1] \notin Keys \/ ~IsValue(toks[2]) THEN SyntaxError
    ELSE IF toks[3] = "}" /\ Len(toks) = 3
         THEN [ok |-> TRUE, value |-> SetMember(obj, toks[1], ValueOf(toks[2]))]
    ELSE IF toks[3] = ","
         THEN Members(SubSeq(toks, 4, Len(toks)),
                      SetMember(obj, toks[1], ValueOf(toks[2])))
    ELSE SyntaxError

RECURSIVE DropWs(_)
DropWs(s) ==
    IF s = <<>> THEN <<>>
    ELSE (IF IsWs(Head(s)) THEN <<>> ELSE <<Head(s)>>) \o DropWs(Tail(s))

ParseTokens(toks) ==
    IF toks = <<"null">> THEN [ok |-> TRUE, value |-> [EmptyObject EXCEPT !.kind = "null"]]
    ELSE IF Len(toks) = 1 /\ IsValue(toks[1])
         THEN [ok |-> TRUE, value |-> [EmptyObject EXCEPT !.kind = "other"]]
    ELSE IF toks = <<"{", "}">> THEN [ok |-> TRUE, value |-> EmptyObject]
    ELSE IF toks # <<>> /\ Head(toks) = "{" THEN Members(Tail(toks), EmptyObject)
    ELSE SyntaxError

\* JSON.parse(data): ok is FALSE where it throws a SyntaxError
JSONParse(data) == ParseTokens(DropWs(data))

----------------------------------------------------------------------------
(* processEvent *)

EventPrefix == <<"event:">>
DataPrefix == <<"data:">>

\* DecodeLine keeping the event type of the first event: line
MutDecodeLineFirstEvent(trimmedLine, acc) ==
    IF StartsWith(trimmedLine, EventPrefix)
    THEN IF acc.eventType = <<"message">>
         THEN [acc EXCEPT !.eventType = Trim(Substring(trimmedLine, Len(EventPrefix)))]
         ELSE acc
    ELSE IF StartsWith(trimmedLine, DataPrefix)
    THEN [acc EXCEPT !.dataLines = Append(@, Substring(trimmedLine, Len(DataPrefix)))]
    ELSE acc

\* one step of the loop over the lines of a frame: an event: line gives the
\* event type, a data: line is collected
DecodeLine(trimmedLine, acc) ==
    IF StartsWith(trimmedLine, EventPrefix)
    THEN [acc EXCEPT !.eventType = Trim(Substring(trimmedLine, Len(EventPrefix)))]
    ELSE IF StartsWith(trimmedLine, DataPrefix)
    THEN [acc EXCEPT !.dataLines = Append(@, Substring(trimmedLine, Len(DataPrefix)))]
    ELSE acc

RECURSIVE DecodeLines(_, _)
DecodeLines(lines, acc) ==
    IF lines = <<>> THEN acc
    ELSE DecodeLines(Tail(lines), DecodeLine(Trim(Head(lines)), acc))

Decoded(d) == [eventType |-> d.eventType, data |-> Join(d.dataLines, <<NL>>)]

\* the event type and the data of a frame
Decode(eventText) ==
    Decoded(DecodeLines(NonBlank(Split(eventText, <<NL>>)),
                        [eventType |-> <<"message">>, dataLines |-> <<>>]))

\* one invocation of onUpdate
Call(content, status) == [content |-> content, status |-> status]

CallbackModes == {"never", "always"}

\* the caller's callback throws on this invocation
Throws(mode, call) == mode = "always"

IsOutcomeFinished(statusInfo) ==
    statusInfo.type = <<"OUTCOME">> /\ statusInfo.status = <<"Finished">>

\* ScanLine keeping the status record of an OUTCOME/Finished line
MutScanLineKeepsStatus(line, statusInfo, st) ==
    IF statusInfo # NoStatus
    THEN [st EXCEPT !.hasStatusLine = TRUE,
                    !.shouldAccumulate = IsOutcomeFinished(statusInfo),
                    !.currentStatus = statusInfo]
    ELSE IF st.shouldAccumulate
         THEN [st EXCEPT !.contentToAdd = @ \o line \o <<NL>>]
         ELSE st

\* ScanLine collecting every ordinary line, accumulating or not
MutScanLineCollectsAll(line, statusInfo, st) ==
    IF statusInfo # NoStatus
    THEN [st EXCEPT !.hasStatusLine = TRUE,
                    !.shouldAccumulate = IsOutcomeFinished(statusInfo),
                    !.currentStatus = IF IsOutcomeFinished(statusInfo)
                                      THEN NoStatus ELSE statusInfo]
    ELSE [st EXCEPT !.contentToAdd = @ \o line \o <<NL>>]

\* ScanLine acting on the first status line of a text only
MutScanLineFirstWins(line, statusInfo, st) ==
    IF statusInfo # NoStatus
    THEN IF st.hasStatusLine THEN st
         ELSE [st EXCEPT !.hasStatusLine = TRUE,
                         !.shouldAccumulate = IsOutcomeFinished(statusInfo),
                         !.currentStatus = IF IsOutcomeFinished(statusInfo)
                                           THEN NoStatus ELSE statusInfo]
    ELSE IF st.shouldAccumulate
         THEN [st EXCEPT !.contentToAdd = @ \o line \o <<NL>>]
         ELSE st

\* one step of the loop over the lines of a message text
ScanLine(line, statusInfo, st) ==
    IF statusInfo # NoStatus
    THEN IF IsOutcomeFinished(statusInfo)
         THEN [st EXCEPT !.hasStatusLine = TRUE,
                         !.shouldAccumulate = TRUE,
                         !.currentStatus = NoStatus]
         ELSE [st EXCEPT !.hasStatusLine = TRUE,
                         !.shouldAccumulate = FALSE,
                         !.currentStatus = statusInfo]
    ELSE IF st.shouldAccumulate
         THEN [st EXCEPT !.contentToAdd = @ \o line \o <<NL>>]
         ELSE st

RECURSIVE ScanLines(_, _)
ScanLines(lines, st) ==
    IF lines = <<>> THEN st
    ELSE ScanLines(Tail(lines),
                   ScanLine(Head(lines), parseStatusLine(Head(lines)), st))

\* what processEvent leaves: the accumulator, the onUpdate calls it made, and
\* whether its catch clause ran
Outcome(fr, calls, c) == [fr |-> fr, calls |-> calls, caught |-> c]

\* Report passing an empty content to the callback
MutReportNoContent(fr, status, before, mode) ==
    Outcome(fr, Append(before, Call(<<>>, status)),
            Throws(mode, Call(<<>>, status)))

\* onUpdate({content: fr.outputText, status}) as the last statement of a case
Report(fr, status, before, mode) ==
    Outcome(fr, Append(before, Call(fr.outputText, status)),
            Throws(mode, Call(fr.outputText, status)))

\* AddContent without the first branch: collected lines are not appended
MutAddContentDropsLines(st, text, fr, before, mode) ==
    IF ~st.hasStatusLine /\ (st.shouldAccumulate \/ fr.awaitingInput)
    THEN Report([fr EXCEPT !.outputText = @ \o text], NoStatus, before, mode)
    ELSE IF ~st.hasStatusLine
    THEN Report(fr, fr.currentStatus, before, mode)
    ELSE Outcome(fr, before, FALSE)

\* AddContent appending the text of every message without a status line
MutAddContentKeepsAll(st, text, fr, before, mode) ==
    IF st.shouldAccumulate /\ st.contentToAdd # <<>>
    THEN Report([fr EXCEPT !.outputText = @ \o st.contentToAdd], NoStatus, before, mode)
    ELSE IF ~st.hasStatusLine
    THEN Report([fr EXCEPT !.outputText = @ \o text], NoStatus, before, mode)
    ELSE Outcome(fr, before, FALSE)

\* message: the statements after the first onUpdate
AddContent(st, text, fr, before, mode) ==
    IF st.shouldAccumulate /\ st.contentToAdd # <<>>
    THEN Report([fr EXCEPT !.outputText = @ \o st.contentToAdd], NoStatus, before, mode)
    ELSE IF ~st.hasStatusLine /\ (st.shouldAccumulate \/ fr.awaitingInput)
    THEN Report([fr EXCEPT !.outputText = @ \o text], NoStatus, before, mode)
    ELSE IF ~st.hasStatusLine
    THEN Report(fr, fr.currentStatus, before, mode)
    ELSE Outcome(fr, before, FALSE)

\* message: the statements after the loop over the lines
AfterScan(st, text, fr, mode) ==
    IF st.hasStatusLine
    THEN IF Throws(mode, Call(fr.outputText, fr.currentStatus))
         THEN Outcome(fr, <<Call(fr.outputText, fr.currentStatus)>>, TRUE)
         ELSE AddContent(st, text, fr, <<Call(fr.outputText, fr.currentStatus)>>, mode)
    ELSE AddContent(st, text, fr, <<>>, mode)

Scanned(st, text, fr, mode) ==
    AfterScan(st, text,
              [fr EXCEPT !.shouldAccumulate = st.shouldAccumulate,
                         !.currentStatus = st.currentStatus],
              mode)

\* OnMessage reporting a message that has no text
MutOnMessageReportsEmpty(parsed, fr, mode) ==
    IF parsed.kind = "null" THEN Outcome(fr, <<>>, TRUE)
    ELSE IF ~Truthy(parsed.text) THEN Report(fr, fr.currentStatus, <<>>, mode)
    ELSE IF ~IsString(parsed.text) THEN Outcome(fr, <<>>, TRUE)
    ELSE Scanned(ScanLines(Split(parsed.text, <<NL>>),
                     [hasStatusLine |-> FALSE, contentToAdd |-> <<>>,
                      shouldAccumulate |-> fr.shouldAccumulate,
                      currentStatus |-> fr.currentStatus]),
                 parsed.text, fr, mode)

\* case "message"
OnMessage(parsed, fr, mode) ==
    IF parsed.kind = "null" THEN Outcome(fr, <<>>, TRUE)
    ELSE IF ~Truthy(parsed.text) THEN Outcome(fr, <<>>, FALSE)
    ELSE IF ~IsString(parsed.text) THEN Outcome(fr, <<>>, TRUE)
    ELSE Scanned(ScanLines(Split(parsed.text, <<NL>>),
                     [hasStatusLine |-> FALSE, contentToAdd |-> <<>>,
                      shouldAccumulate |-> fr.shouldAccumulate,
                      currentStatus |-> fr.currentStatus]),
                 parsed.text, fr, mode)

\* NodeType without the upper-casing
MutNodeTypeAsIs(node, fallback) ==
    IF node.nodeType \in {Null, Undefined} THEN fallback
    ELSE IF ~IsString(node.nodeType) THEN Num
    ELSE Or(node.nodeType, fallback)

\* node.nodeType?.toUpperCase() || fallback; Num where toUpperCase is not a
\* function and the call throws
NodeType(node, fallback) ==
    IF node.nodeType \in {Null, Undefined} THEN fallback
    ELSE IF ~IsString(node.nodeType) THEN Num
    ELSE Or(ToUpperCase(node.nodeType), fallback)

\* OnRunning leaving shouldAccumulate on
MutOnRunningAccumulates(node, type, fr, mode) ==
    IF type = Num THEN Outcome(fr, <<>>, TRUE)
    ELSE Report([fr EXCEPT !.currentStatus = NoStatus,
                           !.shouldAccumulate = TRUE],
                [type |-> type,
                 title |-> Or(node.title, <<"Processing">>),
                 status |-> Or(node.description, <<"in progress">>)],
                <<>>, mode)

\* node-result with status "running"
OnRunning(node, type, fr, mode) ==
    IF type = Num THEN Outcome(fr, <<>>, TRUE)
    ELSE Report([fr EXCEPT !.currentStatus =
                               [type |-> type,
                                title |-> Or(node.title, <<"Processing">>),
                                status |-> Or(node.description, <<"in progress">>)],
                           !.shouldAccumulate = FALSE],
                [type |-> type,
                 title |-> Or(node.title, <<"Processing">>),
                 status |-> Or(node.description, <<"in progress">>)],
                <<>>, mode)

\* node-result with status "completed" and a nodeType other than "outcome"
OnCompleted(node, type, fr, mode) ==
    IF type = Num THEN Outcome([fr EXCEPT !.shouldAccumulate = FALSE], <<>>, TRUE)
    ELSE Report([fr EXCEPT !.shouldAccumulate = FALSE,
                           !.currentStatus =
                               [type |-> type,
                                title |-> Or(node.title, <<"Completed">>),
                                status |-> <<"completed">>]],
                [type |-> type,
                 title |-> Or(node.title, <<"Completed">>),
                 status |-> <<"completed">>],
                <<>>, mode)

\* OnNodeResult putting the title of a completed outcome node into the text
MutOnNodeResultInsertsTitle(node, fr, mode) ==
    IF node.kind = "null" THEN Outcome(fr, <<>>, TRUE)
    ELSE IF node.status = <<"running">>
    THEN OnRunning(node, NodeType(node, <<"PROCESSING">>), fr, mode)
    ELSE IF node.status = <<"completed">> /\ node.nodeType = <<"outcome">>
    THEN Report([fr EXCEPT !.shouldAccumulate = TRUE, !.currentStatus = NoStatus,
                           !.outputText = @ \o <<"Outcome", NL>>],
                NoStatus, <<>>, mode)
    ELSE IF node.status = <<"completed">>
    THEN OnCompleted(node, NodeType(node, <<"COMPLETED">>), fr, mode)
    ELSE Outcome(fr, <<>>, FALSE)

\* case "node-result"
OnNodeResult(node, fr, mode) ==
    IF node.kind = "null" THEN Outcome(fr, <<>>, TRUE)
    ELSE IF node.status = <<"running">>
    THEN OnRunning(node, NodeType(node, <<"PROCESSING">>), fr, mode)
    ELSE IF node.status = <<"completed">> /\ node.nodeType = <<"outcome">>
    THEN Report([fr EXCEPT !.shouldAccumulate = TRUE, !.currentStatus = NoStatus],
                NoStatus, <<>>, mode)
    ELSE IF node.status = <<"completed">>
    THEN OnCompleted(node, NodeType(node, <<"COMPLETED">>), fr, mode)
    ELSE Outcome(fr, <<>>, FALSE)

\* QuestionText taking the prompt first
MutQuestionTextPromptFirst(input) ==
    Or(Or(input.prompt, input.message), input.question)

\* input.message || input.question || input.prompt
QuestionText(input) == Or(Or(input.message, input.question), input.prompt)

\* WithQuestion replacing the text by the question
MutWithQuestionReplaces(outputText, questionText) ==
    IF Truthy(questionText) THEN questionText ELSE outputText

\* WithQuestion putting the separator before every question it appends
MutWithQuestionAlwaysSeparates(outputText, questionText) ==
    IF Truthy(questionText) /\ ~Includes(outputText, questionText)
    THEN outputText \o <<NL, NL>> \o questionText
    ELSE outputText

\* outputText after the question text, if any, has been added
WithQuestion(outputText, questionText) ==
    IF Truthy(questionText) /\ ~Includes(outputText, questionText)
    THEN outputText \o (IF Trim(outputText) # <<>> THEN <<NL, NL>> ELSE <<>>)
                    \o questionText
    ELSE outputText

\* OnAwaitingUserInput leaving currentStatus as it is
MutOnAwaitingKeepsStatus(input, fr, mode) ==
    IF input.kind = "null" THEN Outcome(fr, <<>>, TRUE)
    ELSE Report([fr EXCEPT !.executionId = input.executionId,
                           !.complete = TRUE,
                           !.awaitingInput = TRUE,
                           !.shouldAccumulate = TRUE,
                           !.outputText = WithQuestion(@, QuestionText(input)),
                           !.awaitingInputMessage = Or(QuestionText(input), Null)],
                NoStatus, <<>>, mode)

\* case "awaiting-user-input"
OnAwaitingUserInput(input, fr, mode) ==
    IF input.kind = "null" THEN Outcome(fr, <<>>, TRUE)
    ELSE Report([fr EXCEPT !.executionId = input.executionId,
                           !.complete = TRUE,
                           !.awaitingInput = TRUE,
                           !.currentStatus = NoStatus,
                           !.shouldAccumulate = TRUE,
                           !.outputText = WithQuestion(@, QuestionText(input)),
                           !.awaitingInputMessage = Or(QuestionText(input), Null)],
                NoStatus, <<>>, mode)

\* Switch handling an event type it does not know as a message
MutSwitchDefaultsToMessage(eventType, parsed, fr, mode) ==
    IF eventType = <<"node-result">> THEN OnNodeResult(parsed, fr, mode)
    ELSE IF eventType = <<"awaiting-user-input">>
         THEN OnAwaitingUserInput(parsed, fr, mode)
    ELSE OnMessage(parsed, fr, mode)

\* the switch on the event type
Switch(eventType, parsed, fr, mode) ==
    IF eventType = <<"message">> THEN OnMessage(parsed, fr, mode)
    ELSE IF eventType = <<"node-result">> THEN OnNodeResult(parsed, fr, mode)
    ELSE IF eventType = <<"awaiting-user-input">>
         THEN OnAwaitingUserInput(parsed, fr, mode)
    ELSE Outcome(fr, <<>>, FALSE)

\* TryParse ending the stream's accumulator at a SyntaxError
MutTryParseCompletes(eventType, p, fr, mode) ==
    IF ~p.ok THEN Outcome([fr EXCEPT !.complete = TRUE], <<>>, TRUE)
    ELSE Switch(eventType, p.value, fr, mode)

TryParse(eventType, p, fr, mode) ==
    IF ~p.ok THEN Outcome(fr, <<>>, TRUE) ELSE Switch(eventType, p.value, fr, mode)

Decoding(ev, fr, mode) ==
    IF ev.data = <<>> THEN Outcome(fr, <<>>, FALSE)
    ELSE TryParse(ev.eventType, JSONParse(ev.data), fr, mode)

\* processEvent(eventText, fullResponse, onUpdate), with the callback's
\* behaviour given by mode
processEvent(eventText, fr, mode) == Decoding(Decode(eventText), fr, mode)

----------------------------------------------------------------------------
(* Frames on the wire *)

Header(eventType) == <<"event:", SP, eventType, NL, "data:", SP>>

Delimiter == <<NL, NL>>

fFinHello == Header("message") \o <<"{", "\"text\":", "$finHello", "}">>
fWorld == Header("message") \o <<"{", "\"text\":", "$world", "}">>
\* a message frame without an event: line
fHelloDeciding == <<"data:", SP, "{", "\"text\":", "$helloDeciding", "}">>
fRunning == Header("node-result") \o <<"{", "\"status\":", "$running", "}">>
fOutcomeCompleted ==
    Header("node-result")
        \o <<"{", "\"status\":", "$completed", ",", "\"nodeType\":", "$outcome", "}">>
fAwaitQuestion ==
    Header("awaiting-user-input")
        \o <<"{", "\"executionId\":", "$e1", ",", "\"question\":", "$q", "}">>
fAwaitMessageQuestion ==
    Header("awaiting-user-input")
        \o <<"{", "\"executionId\":", "$e2", ",", "\"message\":", "$m", ",",
             "\"question\":", "$q", "}">>
fAwaitBare == Header("awaiting-user-input") \o <<"{", "}">>
\* data: {"text":   -- not valid JSON
fMalformed == <<"data:", SP, "{", "\"text\":">>
fAwaitQuestionPrompt ==
    Header("awaiting-user-input")
        \o <<"{", "\"executionId\":", "$e1", ",", "\"question\":", "$q", ",",
             "\"prompt\":", "$p", "}">>
fAwaitNull == Header("awaiting-user-input") \o <<"null">>
fPing == Header("ping") \o <<"{", "}">>
\* an event type processEvent has no case for, with the payload of a message
fNote == Header("note") \o <<"{", "\"text\":", "$world", "}">>
\* two event: lines, the second one indented and followed by a space
fTwoEvents ==
    <<"event:", SP, "ping", NL, SP, "event:", SP, "message", SP, NL,
      "data:", SP, "{", "\"text\":", "$world", "}">>
\* two data: lines with a line of another field between them
fSplitData ==
    <<"event:", SP, "message", NL, "data:", SP, "{", NL, "id:", SP, "7", NL,
      "data:", SP, "\"text\":", "$world", "}">>
\* no data: line, and a data: line with nothing after the prefix
fNoData == <<"event:", SP, "message">>
fDataBlank == <<"event:", SP, "message", NL, "data:", SP>>
fNoText == Header("message") \o <<"{", "}">>
fEmptyText == Header("message") \o <<"{", "\"text\":", "$empty", "}">>
fBlank == Header("message") \o <<"{", "\"text\":", "$sp", "}">>
fFinBlank == Header("message") \o <<"{", "\"text\":", "$finBlank", "}">>
fDeciding == Header("message") \o <<"{", "\"text\":", "$deciding", "}">>
fFinThenDeciding ==
    Header("message") \o <<"{", "\"text\":", "$finThenDeciding", "}">>
fDecidingThenFin ==
    Header("message") \o <<"{", "\"text\":", "$decidingThenFin", "}">>
fHelloFinWorld == Header("message") \o <<"{", "\"text\":", "$helloFinWorld", "}">>
fFailed == Header("node-result") \o <<"{", "\"status\":", "$failed", "}">>
fRunningSwitch ==
    Header("node-result")
        \o <<"{", "\"status\":", "$running", ",", "\"nodeType\":", "$switch", ",",
             "\"description\":", "$desc", "}">>
fCompletedSwitch ==
    Header("node-result")
        \o <<"{", "\"status\":", "$completed", ",", "\"nodeType\":", "$switch", ",",
             "\"title\":", "$title", "}">>
\* a nodeType that is not a string
fRunningNumber ==
    Header("node-result")
        \o <<"{", "\"status\":", "$running", ",", "\"nodeType\":", "5", "}">>
fCompletedNumber ==
    Header("node-result")
        \o <<"{", "\"status\":", "$completed", ",", "\"nodeType\":", "5", "}">>

CoreFrames ==
    {fFinHello, fWorld, fHelloDeciding, fRunning, fOutcomeCompleted,
     fAwaitQuestion, fMalformed, fPing}

OpenFrames == {fWorld, fAwaitQuestion}

AwaitFrames ==
    {fRunning, fAwaitQuestion, fAwaitMessageQuestion, fAwaitQuestionPrompt,
     fAwaitBare, fAwaitNull}

ChunkFrames == {fFinHello, fWorld, fMalformed, fRunning}

----------------------------------------------------------------------------
(* startStream *)

\* const fullResponse = {...}; the fields success and conversationId, which
\* nothing changes after construction, are left out
NewResponse(executionId) ==
    [executionId |-> Or(executionId, Null),
     outputText |-> <<>>,
     complete |-> FALSE,
     awaitingInput |-> FALSE,
     currentStatus |-> NoStatus,
     shouldAccumulate |-> FALSE,
     awaitingInputMessage |-> Undefined]

NoUrl == [executionId |-> Undefined, dialogFlowId |-> Undefined,
          conversationId |-> Undefined]

\* StreamUrl adding the ids it has to a resume
MutStreamUrlBoth(conversationId, dialogFlowId, executionId) ==
    IF Truthy(executionId)
    THEN [error |-> FALSE,
          url |-> [NoUrl EXCEPT !.executionId = executionId,
                                !.dialogFlowId = dialogFlowId,
                                !.conversationId = conversationId]]
    ELSE IF ~Truthy(dialogFlowId) \/ ~Truthy(conversationId)
    THEN [error |-> TRUE, url |-> NoUrl]
    ELSE [error |-> FALSE,
          url |-> [NoUrl EXCEPT !.dialogFlowId = dialogFlowId,
                                !.conversationId = conversationId]]

\* the query parameters of the stream URL; error where startStream throws
\* before the request
StreamUrl(conversationId, dialogFlowId, executionId) ==
    IF Truthy(executionId)
    THEN [error |-> FALSE, url |-> [NoUrl EXCEPT !.executionId = executionId]]
    ELSE IF ~Truthy(dialogFlowId) \/ ~Truthy(conversationId)
    THEN [error |-> TRUE, url |-> NoUrl]
    ELSE [error |-> FALSE,
          url |-> [NoUrl EXCEPT !.dialogFlowId = dialogFlowId,
                                !.conversationId = conversationId]]

ConversationIds == {Undefined, <<"C1">>}
DialogFlowIds == {Undefined, <<"F1">>}
ExecutionIds == {Null, <<>>, <<"E0">>}

\* buffer = events.pop() || ""
Pop(events) == events[Len(events)]

\* the events before the last piece
Complete(events) == SubSeq(events, 1, Len(events) - 1)

\* for (const eventText of events) if (eventText.trim()) ...
Dispatchable(events) == NonBlank(events)

World(frames, tokens, rec) ==
    [menu |-> frames, tokens |-> tokens, recording |-> rec]

NoArgs == [conversationId |-> Undefined, dialogFlowId |-> Undefined,
           executionId |-> Undefined]

\* nothing returned by processTextMessage
NoResult ==
    [returned |-> FALSE, fullResponse |-> NewResponse(Null),
     uploadedFile |-> Undefined]

\* no processTextMessage call: startStream called directly
NoCall ==
    [env |-> [apiKey |-> Undefined, dialogFlowId |-> Undefined,
              conversationId |-> Undefined],
     image |-> FALSE, executionId |-> Null,
     uploadedFiles |-> Null, returnedConversationId |-> Undefined,
     requests |-> <<>>, answers |-> <<>>, error |-> "none", result |-> NoResult]

\* no line given to parseStatusLine
NoProbe == [text |-> <<>>, called |-> FALSE, statusInfo |-> NoStatus]

\* App as it is mounted: an empty message box and chat, nothing loading, no
\* pending execution, no call made (sequential and home are observers: no
\* call was started during another, and handleGoHome ran after the last
\* submit)
NoUi ==
    [message |-> FALSE, isLoading |-> FALSE, pendingExecutionId |-> Null,
     messages |-> <<>>, calls |-> <<>>, sequential |-> TRUE, home |-> FALSE]

\* no second consumer
NoOther ==
    [pc |-> "absent", wire |-> <<>>, buffer |-> <<>>, pending |-> <<>>,
     fullResponse |-> NewResponse(Null), received |-> <<>>, log |-> <<>>]

\* the state of the stream before startStream is called
StreamInit(w, modes) ==
    /\ args = NoArgs
    /\ url = NoUrl
    /\ wire = <<>>
    /\ closed = FALSE
    /\ nFrames = 0
    /\ buffer = <<>>
    /\ pending = <<>>
    /\ eof = FALSE
    /\ fullResponse = NewResponse(Null)
    /\ updates = <<>>
    /\ caught = FALSE
    /\ cbMode \in modes
    /\ world = w
    /\ received = <<>>
    /\ log = <<>>

InitWith(w, modes) ==
    /\ pc = "start"
    /\ StreamInit(w, modes)
    /\ orch = NoCall
    /\ probe = NoProbe
    /\ other = NoOther
    /\ ui = NoUi

\* an exception leaves startStream: the connection is dropped and its locals
\* are gone (of the accumulator, which nobody gets, only complete is kept)
Thrown ==
    /\ pc' = "failed"
    /\ wire' = <<>>
    /\ closed' = TRUE
    /\ buffer' = <<>>
    /\ pending' = <<>>
    /\ eof' = FALSE
    /\ fullResponse' = [NewResponse(Null) EXCEPT !.complete = fullResponse.complete]
    /\ updates' = <<>>
    /\ caught' = FALSE
    /\ received' = <<>>
    /\ log' = <<>>
    /\ UNCHANGED <<nFrames, cbMode, world, orch, probe, other, ui>>

\* startStream up to the fetch: the URL is chosen and the request issued, or
\* the call throws
StartStream ==
    /\ pc = "start"
    /\ \E conversationId \in ConversationIds, dialogFlowId \in DialogFlowIds,
          executionId \in world.tokens :
          /\ args' = [conversationId |-> conversationId,
                       dialogFlowId |-> dialogFlowId,
                       executionId |-> executionId]
          /\ IF StreamUrl(conversationId, dialogFlowId, executionId).error
             THEN Thrown /\ url' = NoUrl
             ELSE
               /\ url' = StreamUrl(conversationId, dialogFlowId, executionId).url
               /\ pc' = "fetching"
               /\ UNCHANGED <<wire, closed, nFrames, buffer, pending, eof,
                              fullResponse, updates, caught, cbMode, world,
                              received, log, orch, probe, other, ui>>

\* the fetch answers: a response with a body, or a failure (not ok, no body,
\* network error), on which startStream throws
FetchReturns ==
    /\ pc = "fetching"
    /\ \E ok \in BOOLEAN :
          IF ok
          THEN /\ pc' = "reading"
               /\ fullResponse' = NewResponse(args.executionId)
               /\ UNCHANGED <<wire, closed, nFrames, buffer, pending, eof,
                              updates, caught, cbMode, world, received, log, orch,
                   probe, other, ui>>
          ELSE Thrown
    /\ UNCHANGED <<args, url>>

\* the server sends one more frame, followed by the blank line, or without it
\* as the last text before it closes the connection
Arrive ==
    /\ pc \in {"reading", "dispatching"}
    /\ ~closed
    /\ nFrames < MaxFrames
    /\ Len(wire) <= MaxWire
    /\ \E f \in world.menu, last \in BOOLEAN :
          /\ wire' = wire \o f \o (IF last THEN <<>> ELSE Delimiter)
          /\ closed' = last
    /\ nFrames' = nFrames + 1
    /\ UNCHANGED <<pc, args, url, buffer, pending, eof, fullResponse, updates, caught,
                   cbMode, world, received, log, orch, probe, other, ui>>

\* the server closes the connection
Close ==
    /\ pc \in {"reading", "dispatching"}
    /\ ~closed
    /\ closed' = TRUE
    /\ UNCHANGED <<pc, args, url, wire, nFrames, buffer, pending, eof, fullResponse,
                   updates, caught, cbMode, world, received, log, orch,
                   probe, other, ui>>

\* Buffered forgetting the incomplete last piece
MutBufferedDropsPartial(events) ==
    /\ buffer' = <<>>
    /\ pending' = Dispatchable(Complete(events))
    /\ pc' = IF Dispatchable(Complete(events)) = <<>> THEN "reading"
             ELSE "dispatching"

\* the statements after buffer.split("\n\n")
Buffered(events) ==
    /\ buffer' = Pop(events)
    /\ pending' = Dispatchable(Complete(events))
    /\ pc' = IF Dispatchable(Complete(events)) = <<>> THEN "reading"
             ELSE "dispatching"

\* reader.read() returns a chunk: any non-empty prefix of the unread text
Read ==
    /\ pc = "reading"
    /\ \E n \in 1..Len(wire) :
          /\ wire' = Substring(wire, n)
          /\ received' = IF world.recording THEN received \o SubSeq(wire, 1, n)
                         ELSE received
          /\ Buffered(Split(buffer \o SubSeq(wire, 1, n), Delimiter))
    /\ UNCHANGED <<args, url, closed, nFrames, eof, fullResponse, updates, caught,
                   cbMode, world, log, orch, probe, other, ui>>

\* ReadDone reading again after the end of the stream
MutReadDoneReadsOn ==
    /\ pc = "reading"
    /\ closed /\ wire = <<>>
    /\ UNCHANGED vars

\* ReadDone leaving the rest of the buffer undispatched
MutReadDoneDropsRest ==
    /\ pc = "reading"
    /\ closed /\ wire = <<>>
    /\ eof' = TRUE
    /\ pending' = <<>>
    /\ pc' = "dispatching"
    /\ UNCHANGED <<args, url, wire, closed, nFrames, buffer, fullResponse, updates,
                   caught, cbMode, world, received, log, orch, probe, other, ui>>

\* reader.read() returns done: the rest of the buffer is the last event
ReadDone ==
    /\ pc = "reading"
    /\ closed /\ wire = <<>>
    /\ eof' = TRUE
    /\ pending' = IF Trim(buffer) # <<>> THEN <<buffer>> ELSE <<>>
    /\ pc' = "dispatching"
    /\ UNCHANGED <<args, url, wire, closed, nFrames, buffer, fullResponse, updates,
                   caught, cbMode, world, received, log, orch, probe, other, ui>>

\* ReadFails handing the caller the accumulator as it is
MutReadFailsReturnsPartial ==
    /\ pc = "reading"
    /\ pc' = "failed"
    /\ orch' = [orch EXCEPT !.result = [returned |-> TRUE,
                                        fullResponse |-> fullResponse,
                                        uploadedFile |-> Undefined]]
    /\ UNCHANGED <<args, url, wire, closed, nFrames, buffer, pending, eof,
                   fullResponse, updates, caught, cbMode, world, received, log,
                   probe, other, ui>>

\* reader.read() rejects: startStream rethrows
ReadFails ==
    /\ pc = "reading"
    /\ Thrown
    /\ UNCHANGED <<args, url>>

Processed(r) ==
    /\ fullResponse' = r.fr
    /\ updates' = r.calls
    /\ caught' = r.caught
    /\ log' = IF world.recording THEN log \o r.calls ELSE log

\* Dispatch taking the last of the events first
MutDispatchLastFirst ==
    /\ pc = "dispatching"
    /\ pending # <<>>
    /\ Processed(processEvent(pending[Len(pending)], fullResponse, cbMode))
    /\ pending' = SubSeq(pending, 1, Len(pending) - 1)
    /\ pc' = IF Len(pending) = 1 /\ ~eof THEN "reading" ELSE "dispatching"
    /\ UNCHANGED <<args, url, wire, closed, nFrames, buffer, eof, cbMode, world,
                   received, orch, probe, other, ui>>

\* Dispatch returning as soon as the accumulator is complete
MutDispatchStopsWhenComplete ==
    /\ pc = "dispatching"
    /\ pending # <<>>
    /\ Processed(processEvent(Head(pending), fullResponse, cbMode))
    /\ pending' = Tail(pending)
    /\ pc' = IF processEvent(Head(pending), fullResponse, cbMode).fr.complete
             THEN "done"
             ELSE IF Tail(pending) = <<>> /\ ~eof THEN "reading" ELSE "dispatching"
    /\ UNCHANGED <<args, url, wire, closed, nFrames, buffer, eof, cbMode, world,
                   received, orch, probe, other, ui>>

\* one call of processEvent from the loop over the events of a chunk, or on
\* the rest of the buffer at the end of the stream
Dispatch ==
    /\ pc = "dispatching"
    /\ pending # <<>>
    /\ Processed(processEvent(Head(pending), fullResponse, cbMode))
    /\ pending' = Tail(pending)
    /\ pc' = IF Tail(pending) = <<>> /\ ~eof THEN "reading" ELSE "dispatching"
    /\ UNCHANGED <<args, url, wire, closed, nFrames, buffer, eof, cbMode, world,
                   received, orch, probe, other, ui>>

\* after the last event of the stream: fullResponse.complete = true; return
Return ==
    /\ pc = "dispatching"
    /\ pending = <<>>
    /\ eof
    /\ fullResponse' = [fullResponse EXCEPT !.complete = TRUE]
    /\ pc' = "done"
    /\ UNCHANGED <<args, url, wire, closed, nFrames, buffer, pending, eof, updates,
                   caught, cbMode, world, received, log, orch, probe, other, ui>>

Next ==
    \/ StartStream
    \/ FetchReturns
    \/ Arrive
    \/ Close
    \/ Read
    \/ ReadDone
    \/ ReadFails
    \/ Dispatch
    \/ Return

\* new executions; the callback returns or throws
Init == InitWith(World(CoreFrames, {Null}, FALSE), CallbackModes)

Spec == Init /\ [][Next]_vars

\* any resume token; the callback returns
InitOpen == InitWith(World(OpenFrames, ExecutionIds, FALSE), {"never"})

SpecOpen == InitOpen /\ [][Next]_vars

\* streams that pause for input
InitAwait == InitWith(World(AwaitFrames, {Null}, FALSE), CallbackModes)

SpecAwait == InitAwait /\ [][Next]_vars

\* streams observed in full
InitChunk == InitWith(World(ChunkFrames, {Null}, TRUE), CallbackModes)

SpecChunk == InitChunk /\ [][Next]_vars

----------------------------------------------------------------------------
(* The read loop on a text that arrives in one chunk *)

Logged(r, st) == [fr |-> r.fr, log |-> st.log \o r.calls]

\* for (const eventText of events) processEvent(eventText, ...)
RECURSIVE RunEvents(_, _, _)
RunEvents(events, st, mode) ==
    IF events = <<>> THEN st
    ELSE RunEvents(Tail(events),
                   Logged(processEvent(Head(events), st.fr, mode), st), mode)

\* the accumulator and the onUpdate calls once every complete frame of the
\* pieces has been dispatched
AfterChunk(events, fr, mode) ==
    RunEvents(Dispatchable(Complete(events)), [fr |-> fr, log |-> <<>>], mode)

\* if (buffer.trim()) processEvent(buffer, ...); fullResponse.complete = true
Finished(st) == [st EXCEPT !.fr.complete = TRUE]

AtEnd(events, fr, mode) ==
    Finished(RunEvents(IF Trim(Pop(events)) # <<>> THEN <<Pop(events)>> ELSE <<>>,
                       AfterChunk(events, fr, mode), mode))

\* startStream's loop when the first read returns the whole text and the
\* second returns done
OneChunk(text, fr, mode) == AtEnd(Split(text, Delimiter), fr, mode)

----------------------------------------------------------------------------
(* parseStatusLine on its own *)

\* the symbols a line has between its markers
ContentSymbols == {":", "(", ")", SP, "T", "x"}

Contents ==
    UNION {[1..k -> ContentSymbols] : k \in 1..MaxContent}
        \cup {<<"OUTCOME", ":", SP, "Legal", SP, "reasoning", SP, "(", "Finished", ")">>,
              <<"SWITCH", ":", SP, "a", ":", "b", SP, "(", SP, "Deciding", SP, ")">>,
              <<"OUTCOME">>}

\* a line: text, marker, whitespace or none, content, the same, marker, text
Line(before, gap, content, after) ==
    before \o Marker \o gap \o content \o gap \o Marker \o after

Lines ==
    {Line(before, gap, content, after) :
        before \in {<<>>, <<"Hello", SP>>}, gap \in {<<>>, <<SP>>},
        content \in Contents, after \in {<<>>, <<SP, "x">>}}

InitParse ==
    /\ pc = "start"
    /\ StreamInit(World({}, {Null}, FALSE), {"never"})
    /\ orch = NoCall
    /\ other = NoOther
    /\ ui = NoUi
    /\ probe \in {[NoProbe EXCEPT !.text = text] : text \in Lines}

\* const statusInfo = parseStatusLine(line)
ParseStatusLine ==
    /\ ~probe.called
    /\ probe' = [probe EXCEPT !.called = TRUE,
                              !.statusInfo = parseStatusLine(probe.text)]
    /\ UNCHANGED <<pc, args, url, wire, closed, nFrames, buffer, pending, eof,
                   fullResponse, updates, caught, cbMode, world, received, log,
                   orch, other, ui>>

NextParse == ParseStatusLine

SpecParse == InitParse /\ [][NextParse]_vars

----------------------------------------------------------------------------
(* processTextMessage *)

ApiKeys == {Undefined, <<"K1">>}

\* import.meta.env as getApiConfig reads it
Envs ==
    {[apiKey |-> apiKey, dialogFlowId |-> dialogFlowId,
      conversationId |-> conversationId] :
        apiKey \in ApiKeys, dialogFlowId \in DialogFlowIds,
        conversationId \in ConversationIds}

\* the frames of the streams of a call
CallFrames == {fFinHello, fAwaitQuestion}

InitCall ==
    /\ pc = "called"
    /\ StreamInit(World(CallFrames, {Null}, TRUE), {"never"})
    /\ orch \in {[NoCall EXCEPT !.env = env, !.image = image,
                                !.executionId = executionId] :
                    env \in Envs, image \in BOOLEAN,
                    executionId \in {Null, <<"E0">>}}
    /\ probe = NoProbe
    /\ other = NoOther
    /\ ui = NoUi

\* the error getApiConfig throws, "none" if it returns
ConfigError(env) ==
    IF ~Truthy(env.apiKey) THEN "no-api-key"
    ELSE IF ~Truthy(env.dialogFlowId) THEN "no-dialog-flow-id"
    ELSE IF ~Truthy(env.conversationId) THEN "no-conversation-id"
    ELSE "none"

\* the error startStream throws before its request
UrlError(conversationId, dialogFlowId) ==
    IF ~Truthy(dialogFlowId) THEN "no-dialog-flow-id" ELSE "no-conversation-id"

\* processTextMessage throws: o is orch as the call leaves it
Fails(o, error) ==
    /\ pc' = "failed"
    /\ orch' = [o EXCEPT !.error = error]
    /\ UNCHANGED <<args, url, wire, closed, nFrames, buffer, pending, eof,
                   fullResponse, updates, caught, cbMode, world, received, log,
                   probe, other, ui>>

\* a request of processTextMessage is issued and the call waits for it
Issues(o, request, at) ==
    /\ pc' = at
    /\ orch' = [o EXCEPT !.requests = Append(@, request)]
    /\ UNCHANGED <<args, url, wire, closed, nFrames, buffer, pending, eof,
                   fullResponse, updates, caught, cbMode, world, received, log,
                   probe, other, ui>>

\* processTextMessage up to its first request: getApiConfig, then the upload
\* if there is an image, else the send
ProcessTextMessage ==
    /\ pc = "called"
    /\ IF ConfigError(orch.env) # "none" THEN Fails(orch, ConfigError(orch.env))
       ELSE IF orch.image THEN Issues(orch, "upload", "uploading")
       ELSE Issues(orch, "send", "sending")

\* what the upload can answer: a resource, an HTTP error, a body without ok
\* or resourceId
UploadAnswers == {"resource", "http-error", "invalid"}

\* UploadFileReturns going on to the send whatever the upload answered
MutUploadFileReturnsAnyway ==
    /\ pc = "uploading"
    /\ \E answer \in UploadAnswers :
          Issues([orch EXCEPT !.answers = Append(@, answer),
                              !.uploadedFiles = <<"R1">>], "send", "sending")

\* uploadFile returns or throws; after it the send
UploadFileReturns ==
    /\ pc = "uploading"
    /\ \E answer \in UploadAnswers :
          IF answer = "resource"
          THEN Issues([orch EXCEPT !.answers = Append(@, answer),
                                   !.uploadedFiles = <<"R1">>], "send", "sending")
          ELSE Fails([orch EXCEPT !.answers = Append(@, answer)], "upload")

\* SendMessageReturns sending again after a failure
MutSendMessageRetries ==
    /\ pc = "sending"
    /\ \E ok \in BOOLEAN, conversationId \in ConversationIds :
          IF ok
          THEN /\ pc' = "sent"
               /\ orch' = [orch EXCEPT !.answers = Append(@, "sent"),
                                        !.returnedConversationId = conversationId]
               /\ UNCHANGED <<args, url, wire, closed, nFrames, buffer, pending,
                              eof, fullResponse, updates, caught, cbMode, world,
                              received, log, probe, other, ui>>
          ELSE /\ Len(orch.requests) < 4
               /\ Issues([orch EXCEPT !.answers = Append(@, "http-error")],
                         "send", "sending")

\* sendMessage returns the conversationId of the answer, or throws
SendMessageReturns ==
    /\ pc = "sending"
    /\ \E ok \in BOOLEAN, conversationId \in ConversationIds :
          IF ok
          THEN /\ pc' = "sent"
               /\ orch' = [orch EXCEPT !.answers = Append(@, "sent"),
                                        !.returnedConversationId = conversationId]
               /\ UNCHANGED <<args, url, wire, closed, nFrames, buffer, pending,
                              eof, fullResponse, updates, caught, cbMode, world,
                              received, log, probe, other, ui>>
          ELSE Fails([orch EXCEPT !.answers = Append(@, "http-error")], "send")

\* startStream(returnedConversationId, apiKey, apiUrl, dialogFlowId,
\* executionId, onUpdate) up to the fetch
CallStartStream ==
    /\ pc = "sent"
    /\ args' = [conversationId |-> orch.returnedConversationId,
                dialogFlowId |-> orch.env.dialogFlowId,
                executionId |-> orch.executionId]
    /\ IF StreamUrl(orch.returnedConversationId, orch.env.dialogFlowId,
                    orch.executionId).error
       THEN /\ pc' = "failed"
            /\ orch' = [orch EXCEPT !.error =
                            UrlError(orch.returnedConversationId,
                                     orch.env.dialogFlowId)]
            /\ url' = NoUrl
       ELSE /\ pc' = "fetching"
            /\ orch' = [orch EXCEPT !.requests = Append(@, "stream")]
            /\ url' = StreamUrl(orch.returnedConversationId, orch.env.dialogFlowId,
                                orch.executionId).url
    /\ UNCHANGED <<wire, closed, nFrames, buffer, pending, eof, fullResponse,
                   updates, caught, cbMode, world, received, log, probe, other, ui>>

\* fullResponse.message = message; fullResponse.uploadedFile; return
Respond ==
    /\ pc = "done"
    /\ pc' = "returned"
    /\ orch' = [orch EXCEPT !.result =
                    [returned |-> TRUE,
                     fullResponse |-> fullResponse,
                     uploadedFile |-> IF orch.uploadedFiles # Null
                                      THEN orch.uploadedFiles ELSE Undefined]]
    /\ UNCHANGED <<args, url, wire, closed, nFrames, buffer, pending, eof,
                   fullResponse, updates, caught, cbMode, world, received, log,
                   probe, other, ui>>

NextCall ==
    \/ ProcessTextMessage
    \/ UploadFileReturns
    \/ SendMessageReturns
    \/ CallStartStream
    \/ FetchReturns
    \/ Arrive
    \/ Close
    \/ Read
    \/ ReadDone
    \/ ReadFails
    \/ Dispatch
    \/ Return
    \/ Respond

SpecCall == InitCall /\ [][NextCall]_vars

\* the call's own steps are taken when they can be: a read that has text or
\* the end of the stream to return returns it, and a finished startStream and
\* processTextMessage return. The loop over the events of a chunk is
\* synchronous and processEvent returns, so an event does not wait for its
\* dispatch for ever. The server's answers and a failing read are under no
\* such obligation.
SpecLive ==
    /\ InitCall
    /\ [][NextCall]_vars
    /\ WF_vars(Read)
    /\ WF_vars(ReadDone)
    /\ []<>(pc # "dispatching" \/ pending = <<>>)
    /\ WF_vars(Return)
    /\ WF_vars(Respond)

----------------------------------------------------------------------------
(* Two startStream calls at the same time *)

(* The second call is the record other, with the locals of startStream as   *)
(* its fields; its whole stream is on the wire from the start.  The two     *)
(* calls take their steps in any order.                                     *)

PairFrames == {fFinHello, fWorld}

OtherTexts ==
    {fWorld \o Delimiter \o fFinHello,
     fFinHello \o Delimiter \o fWorld \o Delimiter}

\* the second call after its fetch: const fullResponse = {...}; buffer = ""
StartOther(text) ==
    [pc |-> "reading", wire |-> text, buffer |-> <<>>, pending |-> <<>>,
     fullResponse |-> NewResponse(Null), received |-> <<>>, log |-> <<>>]

InitPair ==
    /\ pc = "start"
    /\ StreamInit(World(PairFrames, {Null}, TRUE), {"never"})
    /\ orch = NoCall
    /\ probe = NoProbe
    /\ other \in {StartOther(text) : text \in OtherTexts}
    /\ ui = NoUi

\* Own giving a call the accumulator of the other call
MutOwnShared(own, shared) == shared

\* the accumulator a call hands to processEvent: fullResponse is a local
\* constant of the call
Own(own, shared) == own

\* the sizes of the chunks the second call reads: all that is there, or half
OtherChunks(c) == {Len(c.wire), (Len(c.wire) + 1) \div 2}

\* the statements after buffer.split("\n\n"), for the second call
Taken(c, events) ==
    [c EXCEPT !.buffer = Pop(events),
              !.pending = Dispatchable(Complete(events)),
              !.pc = IF Dispatchable(Complete(events)) = <<>> THEN "reading"
                     ELSE "dispatching"]

ReadInto(c, n) ==
    Taken([c EXCEPT !.wire = Substring(@, n),
                    !.received = @ \o SubSeq(c.wire, 1, n)],
          Split(c.buffer \o SubSeq(c.wire, 1, n), Delimiter))

\* the second call's reader.read() returns a chunk
OtherRead ==
    /\ other.pc = "reading"
    /\ other.wire # <<>>
    /\ \E n \in OtherChunks(other) : other' = ReadInto(other, n)
    /\ UNCHANGED <<pc, args, url, wire, closed, nFrames, buffer, pending, eof,
                   fullResponse, updates, caught, cbMode, world, received, log,
                   orch, probe, ui>>

\* the second call's reader.read() returns done
OtherReadDone ==
    /\ other.pc = "reading"
    /\ other.wire = <<>>
    /\ other' = [other EXCEPT !.pc = "ending",
                              !.pending = IF Trim(other.buffer) # <<>>
                                          THEN <<other.buffer>> ELSE <<>>]
    /\ UNCHANGED <<pc, args, url, wire, closed, nFrames, buffer, pending, eof,
                   fullResponse, updates, caught, cbMode, world, received, log,
                   orch, probe, ui>>

\* the second call after one processEvent call that left r
AfterEvent(c, r) ==
    [c EXCEPT !.fullResponse = r.fr,
              !.log = @ \o r.calls,
              !.pending = Tail(@),
              !.pc = IF Tail(c.pending) = <<>> /\ c.pc = "dispatching"
                     THEN "reading" ELSE c.pc]

\* one processEvent call of the second call
OtherDispatch ==
    /\ other.pc \in {"dispatching", "ending"}
    /\ other.pending # <<>>
    /\ other' = AfterEvent(other,
                           processEvent(Head(other.pending),
                                        Own(other.fullResponse, fullResponse),
                                        cbMode))
    /\ UNCHANGED <<pc, args, url, wire, closed, nFrames, buffer, pending, eof,
                   fullResponse, updates, caught, cbMode, world, received, log,
                   orch, probe, ui>>

\* the second call sets complete and returns
OtherReturn ==
    /\ other.pc = "ending"
    /\ other.pending = <<>>
    /\ other' = [other EXCEPT !.pc = "done", !.fullResponse.complete = TRUE]
    /\ UNCHANGED <<pc, args, url, wire, closed, nFrames, buffer, pending, eof,
                   fullResponse, updates, caught, cbMode, world, received, log,
                   orch, probe, ui>>

NextPair ==
    \/ StartStream
    \/ FetchReturns
    \/ Arrive
    \/ Close
    \/ Read
    \/ ReadDone
    \/ ReadFails
    \/ Dispatch
    \/ Return
    \/ OtherRead
    \/ OtherReadDone
    \/ OtherDispatch
    \/ OtherReturn

SpecPair == InitPair /\ [][NextPair]_vars

----------------------------------------------------------------------------
(* processEvent on the events of one chunk *)

MaxEvents == 2

EventFrames ==
    {fFinHello, fWorld, fHelloDeciding, fDeciding, fFinBlank, fBlank,
     fFinThenDeciding, fDecidingThenFin, fHelloFinWorld, fRunning,
     fRunningSwitch, fCompletedSwitch, fOutcomeCompleted, fFailed,
     fRunningNumber, fCompletedNumber, fAwaitQuestion, fAwaitMessageQuestion,
     fPing, fNote, fMalformed}

\* the chunks of up to MaxEvents complete frames
EventChunks == UNION {[1..n -> EventFrames] : n \in 1..MaxEvents}

\* startStream in its loop over the events of the first chunk, which held
\* the whole frames of events
ChunkRead(events, modes) ==
    /\ pc = "dispatching"
    /\ args = [conversationId |-> <<"C1">>, dialogFlowId |-> <<"F1">>,
               executionId |-> Null]
    /\ url = StreamUrl(<<"C1">>, <<"F1">>, Null).url
    /\ wire = <<>>
    /\ closed = FALSE
    /\ nFrames = Len(events)
    /\ buffer = <<>>
    /\ pending = events
    /\ eof = FALSE
    /\ fullResponse = NewResponse(Null)
    /\ updates = <<>>
    /\ caught = FALSE
    /\ cbMode \in modes
    /\ world = World(EventFrames, {Null}, TRUE)
    /\ received = Join(events, Delimiter) \o Delimiter
    /\ log = <<>>
    /\ orch = NoCall
    /\ probe = NoProbe
    /\ other = NoOther
    /\ ui = NoUi

InitEvent == \E events \in EventChunks : ChunkRead(events, CallbackModes)

NextEvent == Dispatch

SpecEvent == InitEvent /\ [][NextEvent]_vars

\* frames that differ in their lines, and messages without a text
DecodeFrames ==
    {fFinHello, fWorld, fPing, fNoText, fEmptyText, fTwoEvents, fSplitData,
     fNoData, fDataBlank}

InitDecode ==
    \E events \in UNION {[1..n -> DecodeFrames] : n \in 1..MaxEvents} :
        ChunkRead(events, CallbackModes)

SpecDecode == InitDecode /\ [][NextEvent]_vars

----------------------------------------------------------------------------
(* App: the chat component and its processTextMessage calls *)

MaxSubmits == 3

\* the variables of the api, which the component's steps leave alone
api == <<pc, args, url, wire, closed, nFrames, buffer, pending, eof, fullResponse,
         updates, caught, cbMode, world, received, log, orch, probe, other>>

\* the resume token the workflow issues when it pauses call i
Token(i) == <<"E", ToString(i)>>

\* what processTextMessage can return to call i, which passed this token:
\* the accumulator of a stream that ended without a pause (its executionId
\* is the token passed, or null), or that of a stream that paused, with a
\* new token or without one
Responses(token, i) ==
    {[awaitingInput |-> FALSE, executionId |-> Or(token, Null)],
     [awaitingInput |-> TRUE, executionId |-> Token(i)],
     [awaitingInput |-> TRUE, executionId |-> Undefined]}

\* a call that has not settled
InFlight(u) == {i \in 1..Len(u.calls) : u.calls[i].state = "pending"}

\* the content of the last assistant message of the chat is replaced by
\* text of call i (the content is empty, 0, when the message is added)
WriteLast(messages, i) ==
    IF messages = <<>> THEN messages
    ELSE [messages EXCEPT ![Len(messages)].content = i]

\* handleSubmit keeping the pending token when it passes it
MutSubmittedKeepsToken(u) ==
    IF ~u.message THEN u
    ELSE [u EXCEPT !.message = FALSE,
                   !.isLoading = TRUE,
                   !.messages = Append(@, [owner |-> Len(u.calls) + 1,
                                           content |-> 0]),
                   !.calls = Append(@, [token |-> u.pendingExecutionId,
                                        state |-> "pending",
                                        awaitingInput |-> FALSE,
                                        executionId |-> Null]),
                   !.sequential = @ /\ InFlight(u) = {},
                   !.home = FALSE]

\* handleSubmit up to the await: nothing for a blank message; else the
\* placeholder of the answer is added, the pending token taken and cleared,
\* and processTextMessage called with it
Submitted(u) ==
    IF ~u.message THEN u
    ELSE [u EXCEPT !.message = FALSE,
                   !.isLoading = TRUE,
                   !.pendingExecutionId = Null,
                   !.messages = Append(@, [owner |-> Len(u.calls) + 1,
                                           content |-> 0]),
                   !.calls = Append(@, [token |-> u.pendingExecutionId,
                                        state |-> "pending",
                                        awaitingInput |-> FALSE,
                                        executionId |-> Null]),
                   !.sequential = @ /\ InFlight(u) = {},
                   !.home = FALSE]

\* the component when it is mounted
InitUi ==
    /\ pc = "start"
    /\ StreamInit(World({}, {Null}, FALSE), {"never"})
    /\ orch = NoCall
    /\ probe = NoProbe
    /\ other = NoOther
    /\ ui = NoUi

\* the user types into the message box, or empties it
Type ==
    /\ \E text \in BOOLEAN : ui' = [ui EXCEPT !.message = text]
    /\ UNCHANGED api

\* the send button, disabled while the message is blank or isLoading
ClickSend ==
    /\ ui.message /\ ~ui.isLoading
    /\ Len(ui.calls) < MaxSubmits
    /\ ui' = Submitted(ui)
    /\ UNCHANGED api

\* Enter without Shift in the message box
PressEnter ==
    /\ Len(ui.calls) < MaxSubmits
    /\ ui' = Submitted(ui)
    /\ UNCHANGED api

\* the callback a call passed to processTextMessage is invoked
OnUpdate ==
    /\ \E i \in InFlight(ui) :
          ui' = [ui EXCEPT !.messages = WriteLast(@, i)]
    /\ UNCHANGED api

\* handleSubmit after the await: the call returned an accumulator, or threw
Settles ==
    /\ \E i \in InFlight(ui) :
          \/ \E r \in Responses(ui.calls[i].token, i) :
                ui' = [ui EXCEPT
                          !.calls[i].state = "returned",
                          !.calls[i].awaitingInput = r.awaitingInput,
                          !.calls[i].executionId = r.executionId,
                          !.pendingExecutionId =
                              IF Truthy(r.executionId) /\ r.awaitingInput
                              THEN r.executionId
                              ELSE IF Truthy(r.executionId) THEN Null ELSE @,
                          !.isLoading = FALSE]
          \/ ui' = [ui EXCEPT !.calls[i].state = "failed",
                              !.messages = WriteLast(@, i),
                              !.isLoading = FALSE]
    /\ UNCHANGED api

HandleGoHome ==
    /\ ui' = [ui EXCEPT !.message = FALSE,
                        !.messages = <<>>,
                        !.isLoading = FALSE,
                        !.pendingExecutionId = Null,
                        !.home = TRUE]
    /\ UNCHANGED api

NextUi ==
    \/ Type
    \/ ClickSend
    \/ PressEnter
    \/ OnUpdate
    \/ Settles
    \/ HandleGoHome

SpecUi == InitUi /\ [][NextUi]_vars

\* startStream's loop with every frame whose data is not valid JSON taken out
\* of the text
IsMalformed(eventText) ==
    Decode(eventText).data # <<>> /\ ~JSONParse(Decode(eventText).data).ok

RECURSIVE WellFormed(_)
WellFormed(events) ==
    IF events = <<>> THEN <<>>
    ELSE (IF IsMalformed(Head(events)) THEN <<>> ELSE <<Head(events)>>)
             \o WellFormed(Tail(events))

WithoutMalformed(text) == Join(WellFormed(Split(text, Delimiter)), Delimiter)

----------------------------------------------------------------------------
(* Properties *)

\* the frame the next processEvent call gets, decoded
HeadEvent == Decode(Head(pending))
HeadParse == JSONParse(HeadEvent.data)
HeadPayload == HeadParse.value

\* a step that is one processEvent call
DispatchStep == pc = "dispatching" /\ pending # <<>> /\ pending' = Tail(pending)

\* the call gets an event of this type whose data is valid JSON
Dispatching(eventType) ==
    /\ DispatchStep
    /\ HeadEvent.data # <<>>
    /\ HeadParse.ok
    /\ HeadEvent.eventType = eventType

\* the call gets a message event with a text
MessageStep ==
    /\ Dispatching(<<"message">>)
    /\ HeadPayload.kind = "object"
    /\ IsString(HeadPayload.text)
    /\ HeadPayload.text # <<>>

\* a step within the life of one accumulator
StreamStep == pc \in {"reading", "dispatching"} /\ pc' # "failed"

LinesOf(text) == Split(text, <<NL>>)
IsStatusLine(line) == parseStatusLine(line) # NoStatus
HasStatusLine(text) ==
    \E i \in 1..Len(LinesOf(text)) : IsStatusLine(LinesOf(text)[i])
\* a status line other than OUTCOME/Finished
HasOtherStatusLine(text) ==
    \E i \in 1..Len(LinesOf(text)) :
        /\ IsStatusLine(LinesOf(text)[i])
        /\ ~IsOutcomeFinished(parseStatusLine(LinesOf(text)[i]))
HasOutcomeFinishedLine(text) ==
    \E i \in 1..Len(LinesOf(text)) :
        IsOutcomeFinished(parseStatusLine(LinesOf(text)[i]))

\* the ordinary lines of a text, each followed by a newline
RECURSIVE OrdinaryLines(_)
OrdinaryLines(lines) ==
    IF lines = <<>> THEN <<>>
    ELSE (IF IsStatusLine(Head(lines)) THEN <<>> ELSE Head(lines) \o <<NL>>)
             \o OrdinaryLines(Tail(lines))

\* the ordinary lines before the first status line that is not
\* OUTCOME/Finished
RECURSIVE LinesBeforeOther(_)
LinesBeforeOther(lines) ==
    IF lines = <<>> THEN <<>>
    ELSE IF IsStatusLine(Head(lines))
         THEN IF IsOutcomeFinished(parseStatusLine(Head(lines)))
              THEN LinesBeforeOther(Tail(lines))
              ELSE <<>>
         ELSE <<Head(lines)>> \o LinesBeforeOther(Tail(lines))

\* what the step appended to outputText
Appended ==
    Substring(fullResponse'.outputText, Len(fullResponse.outputText))

\* C1: outputText is append-only: after every processEvent call, and every
\* other step of a stream, the new outputText has the old one as a prefix.
C1_AppendOnly ==
    [][StreamStep =>
           IsPrefix(fullResponse.outputText, fullResponse'.outputText)]_vars

C1_Witness ==
    pc = "done" /\ fullResponse.outputText = <<"Hello", SP, NL, "world.", NL>>

\* C2: however the text is cut into chunks, whenever the loop waits for the
\* next read the buffer, the accumulator and the onUpdate calls made so far are
\* those of the same text read in one chunk, and on return the accumulator and
\* the calls are those of the whole text read in one chunk.
C2_ChunkInsensitive ==
    /\ pc = "reading" =>
           /\ buffer = Pop(Split(received, Delimiter))
           /\ [fr |-> fullResponse, log |-> log]
                  = AfterChunk(Split(received, Delimiter),
                               NewResponse(args.executionId), cbMode)
    /\ pc = "done" =>
           [fr |-> fullResponse, log |-> log]
               = OneChunk(received, NewResponse(args.executionId), cbMode)

\* a chunk ended between the two newlines of a frame delimiter, after an
\* earlier frame made onUpdate calls
C2_Witness ==
    /\ pc = "reading"
    /\ Len(buffer) > 1 /\ buffer[Len(buffer)] = NL
    /\ wire # <<>> /\ Head(wire) = NL
    /\ log # <<>>

\* C3: the frames message "<OUTCOME/Finished status line>\nHello " and
\* message "world.", then end of stream, leave outputText = "Hello world.".
C3_HelloWorld ==
    (/\ pc = "done"
     /\ cbMode = "never"
     /\ received \in {fFinHello \o Delimiter \o fWorld,
                      fFinHello \o Delimiter \o fWorld \o Delimiter})
        => fullResponse.outputText = <<"Hello", SP, "world.">>

Flat(text) == SelectSeq(text, LAMBDA c : c # NL)

Paused(fr) ==
    /\ fr.awaitingInput
    /\ fr.complete
    /\ fr.currentStatus = NoStatus
    /\ fr.shouldAccumulate

\* C5 as stated: every awaiting-user-input event leaves awaitingInput,
\* complete and shouldAccumulate true, currentStatus null and a non-null
\* executionId, the payload's.
C5_Original ==
    [][Dispatching(<<"awaiting-user-input">>)
           => /\ Paused(fullResponse')
              /\ fullResponse'.executionId \notin {Null, Undefined}
              /\ fullResponse'.executionId = HeadPayload.executionId]_vars

\* C5 amended: every awaiting-user-input event whose payload is not JSON null
\* leaves, in any accumulator state, awaitingInput, complete and
\* shouldAccumulate true, currentStatus null and executionId equal to the
\* payload's executionId, so non-null exactly if the payload carries a
\* non-null one; an event whose payload is JSON null changes nothing.
C5_Amended ==
    [][/\ (Dispatching(<<"awaiting-user-input">>) /\ HeadPayload.kind # "null")
           => /\ Paused(fullResponse')
              /\ fullResponse'.executionId = HeadPayload.executionId
       /\ (Dispatching(<<"awaiting-user-input">>) /\ HeadPayload.kind = "null")
           => fullResponse' = fullResponse /\ updates' = <<>>
      ]_vars

\* a pause that followed a running node, whose status it cleared
C5_Witness ==
    /\ Paused(fullResponse)
    /\ fullResponse.executionId = <<"E1">>
    /\ nFrames = 2
    /\ updates = <<Call(<<"Which", SP, "one?">>, NoStatus)>>
    /\ pc = "reading"
    /\ cbMode = "never"

HasQuestion(payload) ==
    /\ payload.kind = "object"
    /\ IsString(payload.question)
    /\ payload.question # <<>>

\* C6 as stated: an awaiting-user-input event with a question, dispatched
\* while outputText is empty, leaves the question in outputText whatever else
\* the payload carries.
C6_Original ==
    [][(/\ Dispatching(<<"awaiting-user-input">>)
        /\ fullResponse.outputText = <<>>
        /\ HasQuestion(HeadPayload))
           => Includes(fullResponse'.outputText, HeadPayload.question)]_vars

\* C6 amended: it does so if the payload has no non-empty message, whatever
\* prompt it carries; and the text the event stored as awaitingInputMessage is
\* in outputText from then on, to the end of the stream.
C6_Amended ==
    /\ [][(/\ Dispatching(<<"awaiting-user-input">>)
           /\ fullResponse.outputText = <<>>
           /\ HasQuestion(HeadPayload)
           /\ ~Truthy(HeadPayload.message))
              => /\ Includes(fullResponse'.outputText, HeadPayload.question)
                 /\ fullResponse'.awaitingInputMessage = HeadPayload.question
          ]_vars
    /\ [](fullResponse.awaitingInputMessage \notin {Null, Undefined}
              => Includes(fullResponse.outputText,
                          fullResponse.awaitingInputMessage))

\* the stream ended after a question asked on an empty outputText
C6_Witness ==
    /\ pc = "done"
    /\ fullResponse.awaitingInputMessage = <<"Which", SP, "one?">>
    /\ IsPrefix(<<"Which", SP, "one?">>, fullResponse.outputText)

\* C7: the stream-open request carries the executionId alone if a resume
\* token was passed, and dialogFlowId with conversationId if none was; a call
\* with neither a token nor both ids throws without a request.
C7_ExactlyOne ==
    /\ pc \in {"fetching", "reading", "dispatching", "done"} =>
           IF Truthy(args.executionId)
           THEN url = [NoUrl EXCEPT !.executionId = args.executionId]
           ELSE /\ Truthy(args.dialogFlowId)
                /\ Truthy(args.conversationId)
                /\ url = [NoUrl EXCEPT !.dialogFlowId = args.dialogFlowId,
                                       !.conversationId = args.conversationId]
    /\ (/\ pc # "start"
        /\ ~Truthy(args.executionId)
        /\ ~(Truthy(args.dialogFlowId) /\ Truthy(args.conversationId)))
           => pc = "failed" /\ url = NoUrl

\* a resume by a caller that also has a dialogFlowId and a conversationId
C7_Witness ==
    /\ pc = "reading"
    /\ args = [conversationId |-> <<"C1">>, dialogFlowId |-> <<"F1">>,
               executionId |-> <<"E0">>]

\* C8: a frame whose data is not valid JSON changes nothing and calls
\* onUpdate never, the loop goes on, and the returned accumulator and the
\* onUpdate calls of the stream are those of the stream without such frames.
C8_MalformedSkipped ==
    /\ [][(DispatchStep /\ IsMalformed(Head(pending)))
              => /\ fullResponse' = fullResponse
                 /\ updates' = <<>>
                 /\ log' = log
                 /\ pc' \in {"reading", "dispatching"}]_vars
    /\ [](pc = "done" =>
              [fr |-> fullResponse, log |-> log]
                  = OneChunk(WithoutMalformed(received),
                             NewResponse(args.executionId), cbMode))

\* a stream that began with a malformed frame
C8_Witness ==
    /\ pc = "done"
    /\ received = fMalformed \o Delimiter \o fFinHello \o Delimiter
    /\ fullResponse.outputText = <<"Hello", SP, NL>>

\* C9: shouldAccumulate goes from false to true only in a processEvent call
\* on a message event with an OUTCOME/Finished status line, on a node-result
\* event with status completed and nodeType outcome, or on an
\* awaiting-user-input event.
C9_TurnsOnOnly ==
    [][(pc # "start" /\ ~fullResponse.shouldAccumulate
            /\ fullResponse'.shouldAccumulate)
           => \/ MessageStep /\ HasOutcomeFinishedLine(HeadPayload.text)
              \/ /\ Dispatching(<<"node-result">>)
                 /\ HeadPayload.status = <<"completed">>
                 /\ HeadPayload.nodeType = <<"outcome">>
              \/ Dispatching(<<"awaiting-user-input">>)]_vars

\* turned on by a completed outcome node
C9_Witness ==
    /\ fullResponse.shouldAccumulate
    /\ ~fullResponse.awaitingInput
    /\ fullResponse.outputText = <<>>
    /\ updates = <<Call(<<>>, NoStatus)>>

\* C10: in every state shouldAccumulate = true implies currentStatus = null
\* (so a non-null currentStatus implies shouldAccumulate = false).
C10_StatusCleared ==
    fullResponse.shouldAccumulate => fullResponse.currentStatus = NoStatus

\* a stream of three frames that returned while accumulating
C10_Witness ==
    /\ fullResponse.shouldAccumulate
    /\ fullResponse.outputText = <<"Hello", SP, NL>>
    /\ nFrames = 3
    /\ pc = "done"

\* C11: within one stream the accumulator's executionId is set at most once:
\* after an awaiting-user-input event has assigned it, no later event of the
\* stream changes it.
C11_SetOnce ==
    [][(StreamStep /\ fullResponse.awaitingInput)
           => fullResponse'.executionId = fullResponse.executionId]_vars

\* the text between the first and the last MarkerLen symbols of a line
Middle(text) == SubSeq(text, MarkerLen + 1, Len(text) - MarkerLen)

\* the line is marker, whitespace, content, whitespace, marker and nothing
\* else
Enveloped(text) ==
    /\ Len(text) >= 2 * MarkerLen + 3
    /\ \A i \in 1..MarkerLen : text[i] = Glyph /\ text[Len(text) + 1 - i] = Glyph
    /\ IsWs(Middle(text)[1])
    /\ IsWs(Middle(text)[Len(Middle(text))])
    /\ Trim(Middle(text)) # <<>>

HasColon(content) == \E i \in 1..Len(content) : content[i] = ":"

\* C12: parseStatusLine returns null for every line that is not exactly the
\* envelope around a content with a colon; a line with text before or after
\* the envelope is not a status line.
C12_ExactEnvelope ==
    (probe.called /\ ~(Enveloped(probe.text) /\ HasColon(Middle(probe.text))))
        => probe.statusInfo = NoStatus

FirstColon(content) == MinOf({i \in 1..Len(content) : content[i] = ":"})
TypeOf(content) == Trim(SubSeq(content, 1, FirstColon(content) - 1))
RestOf(content) == Trim(SubSeq(content, FirstColon(content) + 1, Len(content)))

\* rest is a title, an opening parenthesis at k, a status and a closing
\* parenthesis
StatusAt(rest, k) ==
    /\ 2 <= k /\ k <= Len(rest) - 2
    /\ rest[k] = "("
    /\ rest[Len(rest)] = ")"

EndsWithStatus(rest) == \E k \in 1..Len(rest) : StatusAt(rest, k)

\* statusInfo is the record specified for this type and rest
Describes(statusInfo, type, rest) ==
    /\ statusInfo.type = type
    /\ IF EndsWithStatus(rest)
       THEN \E k \in 1..Len(rest) :
               /\ StatusAt(rest, k)
               /\ statusInfo.title = Trim(SubSeq(rest, 1, k - 1))
               /\ statusInfo.status = Trim(SubSeq(rest, k + 1, Len(rest) - 1))
       ELSE statusInfo.title = rest /\ statusInfo.status = Null

\* C13: for a line that is the envelope, parseStatusLine returns type = the
\* trimmed content before the first colon and, with rest = the trimmed
\* content after it, later colons kept: the trimmed title and the trimmed
\* status if rest ends with "(status)" after a title, else title = rest and
\* status = null; and it returns null if the content has no colon.
C13_TypeTitleStatus ==
    (probe.called /\ Enveloped(probe.text))
        => IF HasColon(Middle(probe.text))
           THEN Describes(probe.statusInfo, TypeOf(Middle(probe.text)),
                          RestOf(Middle(probe.text)))
           ELSE probe.statusInfo = NoStatus

\* a status line with a second colon and blanks inside the parentheses
C13_Witness ==
    /\ probe.called
    /\ probe.text = Line(<<>>, <<SP>>,
                         <<"SWITCH", ":", SP, "a", ":", "b", SP, "(", SP,
                           "Deciding", SP, ")">>, <<>>)
    /\ probe.statusInfo = [type |-> <<"SWITCH">>, title |-> <<"a", ":", "b">>,
                           status |-> <<"Deciding">>]

\* the complete frames of the text received so far that the loop dispatches
CompleteFrames == Dispatchable(Complete(Split(received, Delimiter)))

\* those of them already given to processEvent
Dispatched == SubSeq(CompleteFrames, 1, Len(CompleteFrames) - Len(pending))

\* C14: frames are dispatched in the order in which they complete: no read is
\* issued while a complete frame is undispatched, the frames still to
\* dispatch are the last complete frames of the text received, in stream
\* order, and the onUpdate calls made so far are those of the frames before
\* them, frame after frame.
C14_InOrder ==
    /\ pc = "reading" => pending = <<>>
    /\ (pc \in {"reading", "dispatching"} /\ ~eof) =>
           /\ Len(pending) <= Len(CompleteFrames)
           /\ pending = SubSeq(CompleteFrames,
                               Len(CompleteFrames) - Len(pending) + 1,
                               Len(CompleteFrames))
           /\ [fr |-> fullResponse, log |-> log]
                  = RunEvents(Dispatched,
                              [fr |-> NewResponse(args.executionId), log |-> <<>>],
                              cbMode)

\* after an earlier frame made its calls, one chunk completed two frames,
\* which wait to be dispatched
C14_Witness ==
    /\ pc = "dispatching"
    /\ ~eof
    /\ Len(pending) = 2
    /\ log # <<>>

\* the rest of the buffer at the end of the stream, if it is an event
LastEvent == IF Trim(buffer) # <<>> THEN <<buffer>> ELSE <<>>

\* C15: while the stream is open the trailing partial frame stays in the
\* buffer and no processEvent call gets it; at the end of the stream a
\* non-blank rest of the buffer is dispatched once, after every complete
\* frame, then complete is set to true and the accumulator returned, so a
\* returned accumulator has complete = true.
C15_PartialFrame ==
    /\ []((pc \in {"reading", "dispatching"} /\ ~eof)
              => buffer = Pop(Split(received, Delimiter)))
    /\ [][(DispatchStep /\ ~eof) => buffer' = buffer]_vars
    /\ []((pc = "dispatching" /\ eof) => pending \in {<<>>, LastEvent})
    /\ [][(pc # "done" /\ pc' = "done")
              => /\ eof /\ pending = <<>>
                 /\ fullResponse' = [fullResponse EXCEPT !.complete = TRUE]]_vars
    /\ [](pc = "done" =>
              /\ fullResponse.complete
              /\ [fr |-> fullResponse, log |-> log]
                     = Finished(RunEvents(LastEvent,
                                          AfterChunk(Split(received, Delimiter),
                                                     NewResponse(args.executionId),
                                                     cbMode),
                                          cbMode)))

\* a stream that ended in a frame without the blank line after it, which
\* made the last onUpdate calls
C15_Witness ==
    /\ pc = "done"
    /\ Trim(buffer) # <<>>
    /\ updates # <<>>
    /\ fullResponse.complete
    /\ Len(log) > Len(updates)

\* C16: if a read of the stream fails, the processTextMessage call fails: the
\* failed read sets complete no more than it was, leaves no event to
\* dispatch and returns no accumulator, and after it the call does nothing:
\* no frame is dispatched, no onUpdate call made, nothing returned.
C16_ReadFailure ==
    [][/\ (pc = "reading" /\ pc' = "failed")
           => /\ fullResponse'.complete = fullResponse.complete
              /\ pending' = <<>>
              /\ ~orch'.result.returned
       /\ pc = "failed" => UNCHANGED vars
      ]_vars

\* a read failed after two frames of the stream of a call with an image
C16_Witness ==
    /\ pc = "failed"
    /\ nFrames = 2
    /\ orch.requests = <<"upload", "send", "stream">>
    /\ ~orch.result.returned

\* the requests of a call, in the order of the steps
Plan(image) == (IF image THEN <<"upload">> ELSE <<>>) \o <<"send", "stream">>

Succeeded(answer) == answer \in {"resource", "sent"}

\* C17: the requests of a call are upload (only with an image), send, stream
\* open, in this order; a request is issued only when all requests before it
\* were answered with success, and a call that failed issues no request.
C17_StepsInOrder ==
    /\ [](IsPrefix(orch.requests, Plan(orch.image)))
    /\ [][(orch'.requests # orch.requests)
              => /\ pc # "failed" /\ pc' # "failed"
                 /\ Len(orch'.answers) = Len(orch.requests)
                 /\ \A i \in 1..Len(orch'.answers) : Succeeded(orch'.answers[i])
          ]_vars
    /\ [](\A i \in 1..Len(orch.answers) :
              ~Succeeded(orch.answers[i])
                  => pc = "failed" /\ Len(orch.requests) = i)

\* the upload was refused: the call failed without a send
C17_Witness ==
    /\ pc = "failed"
    /\ orch.error = "upload"
    /\ orch.answers = <<"http-error">>
    /\ orch.requests = <<"upload">>

\* how many times a request was issued
Issued(request) ==
    Cardinality({i \in 1..Len(orch.requests) : orch.requests[i] = request})

\* C18: no retries: a call issues the upload request, the send-message request
\* and the stream-open request at most once each, whether they succeed or
\* fail.
C18_NoRetries ==
    \A request \in {"upload", "send", "stream"} : Issued(request) <= 1

\* the send failed after a successful upload and was not repeated
C18_Witness ==
    /\ pc = "failed"
    /\ orch.error = "send"
    /\ orch.requests = <<"upload", "send">>

\* C19: a call that fails because the API key, the dialog-flow id or the
\* conversation id is missing has issued no request.
C19_ConfigBeforeNetwork ==
    orch.error \in {"no-api-key", "no-dialog-flow-id", "no-conversation-id"}
        => orch.requests = <<>>

\* C20: two calls running at the same time share no state: in every
\* interleaving of their reads and dispatches the accumulator and the
\* onUpdate calls of each are those of that call alone on the text it has
\* read, and the accumulator each returns is that of its own stream.
C20_Independent ==
    /\ pc = "reading" =>
           [fr |-> fullResponse, log |-> log]
               = AfterChunk(Split(received, Delimiter),
                            NewResponse(args.executionId), cbMode)
    /\ pc = "done" =>
           [fr |-> fullResponse, log |-> log]
               = OneChunk(received, NewResponse(args.executionId), cbMode)
    /\ other.pc = "reading" =>
           [fr |-> other.fullResponse, log |-> other.log]
               = AfterChunk(Split(other.received, Delimiter),
                            NewResponse(Null), cbMode)
    /\ other.pc = "done" =>
           [fr |-> other.fullResponse, log |-> other.log]
               = OneChunk(other.received, NewResponse(Null), cbMode)

\* both calls are between two reads, each after onUpdate calls of its own,
\* with different accumulators
C20_Witness ==
    /\ pc = "reading"
    /\ other.pc = "reading"
    /\ other.wire # <<>>
    /\ log # <<>>
    /\ other.log # <<>>
    /\ fullResponse.outputText # other.fullResponse.outputText
    /\ fullResponse.outputText # <<>>

\* C21: after an awaiting-user-input event has been dispatched, a message
\* event loses none of its ordinary lines: what the call appends to
\* outputText is, newlines aside, the ordinary lines of its text in order,
\* also when the text has a status line.
C21_AllCaptured ==
    [][(MessageStep /\ fullResponse.awaitingInput /\ cbMode = "never")
           => Flat(Appended) = Flat(OrdinaryLines(LinesOf(HeadPayload.text)))]_vars

\* C22: a message event without a status line, dispatched while
\* shouldAccumulate is true, appends its raw text to outputText and nothing
\* else, and calls onUpdate once, with the new outputText and no status.
C22_Verbatim ==
    [][(MessageStep /\ fullResponse.shouldAccumulate
            /\ ~HasStatusLine(HeadPayload.text))
           => /\ fullResponse'.outputText
                     = fullResponse.outputText \o HeadPayload.text
              /\ updates' = <<Call(fullResponse'.outputText, NoStatus)>>]_vars

\* the string an awaiting-user-input payload carries: its message, or else
\* its question, or else its prompt
Carried(payload) ==
    IF Truthy(payload.message) THEN payload.message
    ELSE IF Truthy(payload.question) THEN payload.question
    ELSE payload.prompt

\* the call gets an awaiting-user-input event that carries a string
QuestionStep ==
    /\ Dispatching(<<"awaiting-user-input">>)
    /\ HeadPayload.kind = "object"
    /\ IsString(Carried(HeadPayload))
    /\ Carried(HeadPayload) # <<>>

\* C23 as stated: an awaiting-user-input event carrying a string leaves
\* outputText unchanged if the string is already in it, and otherwise makes
\* it the old outputText, then a blank-line separator if the old outputText
\* was non-empty, then the string.
C23_Original ==
    [][QuestionStep
           => fullResponse'.outputText
                  = IF Includes(fullResponse.outputText, Carried(HeadPayload))
                    THEN fullResponse.outputText
                    ELSE fullResponse.outputText
                             \o (IF fullResponse.outputText # <<>>
                                 THEN <<NL, NL>> ELSE <<>>)
                             \o Carried(HeadPayload)]_vars

\* C23 amended: the separator is put exactly if the old outputText has a
\* character that is not whitespace; after an outputText that is empty or
\* all whitespace the string follows it directly.
C23_Amended ==
    [][QuestionStep
           => fullResponse'.outputText
                  = IF Includes(fullResponse.outputText, Carried(HeadPayload))
                    THEN fullResponse.outputText
                    ELSE fullResponse.outputText
                             \o (IF \E i \in 1..Len(fullResponse.outputText) :
                                        ~IsWs(fullResponse.outputText[i])
                                 THEN <<NL, NL>> ELSE <<>>)
                             \o Carried(HeadPayload)]_vars

\* a question appended to an outputText that held a blank line only
C23_Witness ==
    /\ received = fFinBlank \o Delimiter \o fAwaitQuestion \o Delimiter
    /\ pending = <<>>
    /\ fullResponse.outputText = <<SP, NL, "Which", SP, "one?">>

\* the status lines of a text, parsed, in order
RECURSIVE StatusLines(_)
StatusLines(lines) ==
    IF lines = <<>> THEN <<>>
    ELSE (IF IsStatusLine(Head(lines)) THEN <<parseStatusLine(Head(lines))>>
          ELSE <<>>)
             \o StatusLines(Tail(lines))

\* the last status line of a text that has one
LastStatus(text) == StatusLines(LinesOf(text))[Len(StatusLines(LinesOf(text)))]

\* C24: after a message event whose text has several status lines,
\* shouldAccumulate and currentStatus are those the last status line gives:
\* true and null if it is OUTCOME/Finished, false and its record otherwise,
\* whatever the earlier lines and the accumulator before the event were.
C24_LastStatusLine ==
    [][(MessageStep /\ Len(StatusLines(LinesOf(HeadPayload.text))) >= 2)
           => IF IsOutcomeFinished(LastStatus(HeadPayload.text))
              THEN /\ fullResponse'.shouldAccumulate
                   /\ fullResponse'.currentStatus = NoStatus
              ELSE /\ ~fullResponse'.shouldAccumulate
                   /\ fullResponse'.currentStatus = LastStatus(HeadPayload.text)
      ]_vars

\* a SWITCH line followed by an OUTCOME/Finished line, after a running node
C24_Witness ==
    /\ received = fRunningSwitch \o Delimiter \o fDecidingThenFin \o Delimiter
    /\ pending = <<>>
    /\ fullResponse.shouldAccumulate
    /\ fullResponse.currentStatus = NoStatus
    /\ fullResponse.outputText = <<"world.", NL>>

\* the text has a status line and a line that is not one
Mixed(text) ==
    /\ HasStatusLine(text)
    /\ \E i \in 1..Len(LinesOf(text)) : ~IsStatusLine(LinesOf(text)[i])

\* the ordinary lines that come while accumulation is on, each followed by a
\* newline: on is the accumulator's shouldAccumulate up to the first status
\* line, and after a status line it is whether that line is OUTCOME/Finished
RECURSIVE Gated(_, _)
Gated(lines, on) ==
    IF lines = <<>> THEN <<>>
    ELSE IF IsStatusLine(Head(lines))
         THEN Gated(Tail(lines), IsOutcomeFinished(parseStatusLine(Head(lines))))
         ELSE (IF on THEN Head(lines) \o <<NL>> ELSE <<>>)
                  \o Gated(Tail(lines), on)

\* C25 as stated: a message event with status lines and ordinary lines that
\* leaves shouldAccumulate true appends all its ordinary lines, in order,
\* each followed by a newline, wherever the status lines are.
C25_Original ==
    [][(MessageStep /\ Mixed(HeadPayload.text) /\ fullResponse'.shouldAccumulate
            /\ cbMode = "never")
           => Appended = OrdinaryLines(LinesOf(HeadPayload.text))]_vars

\* C25 amended: such an event appends, in order and each followed by a
\* newline, the ordinary lines that come while accumulation is on (before the
\* first status line if shouldAccumulate was true before the event, and after
\* an OUTCOME/Finished line up to the next status line); the other ordinary
\* lines are dropped, and nothing is appended if the status call of onUpdate
\* throws.
C25_Amended ==
    [][(MessageStep /\ Mixed(HeadPayload.text) /\ fullResponse'.shouldAccumulate)
           => Appended
                  = IF cbMode = "always" THEN <<>>
                    ELSE Gated(LinesOf(HeadPayload.text),
                               fullResponse.shouldAccumulate)]_vars

\* on a new accumulator the line before the OUTCOME/Finished line is dropped
\* and the line after it appended
C25_Witness ==
    /\ received = fHelloFinWorld \o Delimiter
    /\ pending = <<>>
    /\ fullResponse.shouldAccumulate
    /\ fullResponse.outputText = <<"world.", NL>>

\* C26: a message event with a non-empty text calls onUpdate once or twice.
\* If the text has a status line, the first call carries the outputText of
\* before the event and the resulting currentStatus; if moreover
\* shouldAccumulate is left true and lines were collected, a second and last
\* call carries the extended outputText and no status.
C26_StatusThenContent ==
    [][MessageStep
           => /\ Len(updates') \in {1, 2}
              /\ HasStatusLine(HeadPayload.text)
                     => updates'[1] = Call(fullResponse.outputText,
                                           fullResponse'.currentStatus)
              /\ (/\ HasStatusLine(HeadPayload.text)
                  /\ fullResponse'.shouldAccumulate
                  /\ Gated(LinesOf(HeadPayload.text),
                           fullResponse.shouldAccumulate) # <<>>)
                     => /\ Len(updates') = 2
                        /\ fullResponse'.outputText
                               = fullResponse.outputText
                                     \o Gated(LinesOf(HeadPayload.text),
                                              fullResponse.shouldAccumulate)
                        /\ updates'[2] = Call(fullResponse'.outputText, NoStatus)
      ]_vars

\* a frame that can start the accumulation: a message with an
\* OUTCOME/Finished status line, a node-result of a completed outcome node,
\* or an awaiting-user-input event
Starting(ev) ==
    /\ ev.data # <<>>
    /\ JSONParse(ev.data).ok
    /\ \/ /\ ev.eventType = <<"message">>
          /\ JSONParse(ev.data).value.kind = "object"
          /\ IsString(JSONParse(ev.data).value.text)
          /\ HasOutcomeFinishedLine(JSONParse(ev.data).value.text)
       \/ /\ ev.eventType = <<"node-result">>
          /\ JSONParse(ev.data).value.status = <<"completed">>
          /\ JSONParse(ev.data).value.nodeType = <<"outcome">>
       \/ ev.eventType = <<"awaiting-user-input">>

\* no frame of the stream can start the accumulation
NeverStarted ==
    \A i \in 1..Len(Split(received, Delimiter)) :
        ~Starting(Decode(Split(received, Delimiter)[i]))

\* C27: in a stream without an OUTCOME/Finished status line, a completed
\* outcome node-result and an awaiting-user-input event, outputText is empty
\* in every state, and every message event with a text makes one onUpdate
\* call, with the unchanged outputText and the current status.
C27_Discarded ==
    /\ [](NeverStarted => fullResponse.outputText = <<>>)
    /\ [][(MessageStep /\ NeverStarted)
              => /\ fullResponse'.outputText = fullResponse.outputText
                 /\ updates' = <<Call(fullResponse.outputText,
                                      fullResponse'.currentStatus)>>]_vars

\* a message text dropped after a SWITCH status line
C27_Witness ==
    /\ received = fHelloDeciding \o Delimiter \o fWorld \o Delimiter
    /\ pending = <<>>
    /\ fullResponse.outputText = <<>>
    /\ fullResponse.currentStatus # NoStatus
    /\ updates = <<Call(<<>>, fullResponse.currentStatus)>>

\* the call gets a node-result event whose payload is an object with this
\* status
NodeStep(status) ==
    /\ Dispatching(<<"node-result">>)
    /\ HeadPayload.kind = "object"
    /\ HeadPayload.status = status

\* the status record specified for a node: its nodeType in upper case, its
\* title, and the given status, with defaults for a missing type and title
StatusOf(node, type, title, status) ==
    [type |-> IF Truthy(node.nodeType) THEN ToUpperCase(node.nodeType) ELSE type,
     title |-> IF Truthy(node.title) THEN node.title ELSE title,
     status |-> status]

\* the step turns accumulation off, sets currentStatus to the record and
\* reports it once, with the outputText it leaves alone
Reports(record) ==
    /\ fullResponse' = [fullResponse EXCEPT !.shouldAccumulate = FALSE,
                                            !.currentStatus = record]
    /\ record # NoStatus
    /\ updates' = <<Call(fullResponse.outputText, record)>>

\* C28 as stated: a node-result event with status running, or completed with
\* a nodeType other than outcome, sets shouldAccumulate to false and
\* currentStatus to the record of the node, leaves outputText unchanged and
\* calls onUpdate once with that outputText and record.
C28_Original ==
    [][/\ NodeStep(<<"running">>)
           => Reports(StatusOf(HeadPayload, <<"PROCESSING">>, <<"Processing">>,
                               IF Truthy(HeadPayload.description)
                               THEN HeadPayload.description
                               ELSE <<"in progress">>))
       /\ (NodeStep(<<"completed">>) /\ HeadPayload.nodeType # <<"outcome">>)
           => Reports(StatusOf(HeadPayload, <<"COMPLETED">>, <<"Completed">>,
                               <<"completed">>))
      ]_vars

\* C28 amended: it does so if the nodeType is a string or is missing. With a
\* nodeType that is not a string the upper-casing throws and the exception
\* is swallowed: a running event then changes nothing, a completed event
\* only sets shouldAccumulate to false, and neither calls onUpdate.
C28_Amended ==
    [][/\ (NodeStep(<<"running">>) /\ HeadPayload.nodeType # Num)
           => Reports(StatusOf(HeadPayload, <<"PROCESSING">>, <<"Processing">>,
                               IF Truthy(HeadPayload.description)
                               THEN HeadPayload.description
                               ELSE <<"in progress">>))
       /\ (/\ NodeStep(<<"completed">>)
           /\ HeadPayload.nodeType \notin {<<"outcome">>, Num})
           => Reports(StatusOf(HeadPayload, <<"COMPLETED">>, <<"Completed">>,
                               <<"completed">>))
       /\ (NodeStep(<<"running">>) /\ HeadPayload.nodeType = Num)
           => fullResponse' = fullResponse /\ updates' = <<>>
       /\ (NodeStep(<<"completed">>) /\ HeadPayload.nodeType = Num)
           => /\ fullResponse'
                     = [fullResponse EXCEPT !.shouldAccumulate = FALSE]
              /\ updates' = <<>>
      ]_vars

\* a completed switch node ended the accumulation that had kept "Hello "
C28_Witness ==
    /\ received = fFinHello \o Delimiter \o fCompletedSwitch \o Delimiter
    /\ pending = <<>>
    /\ ~fullResponse.shouldAccumulate
    /\ fullResponse.outputText = <<"Hello", SP, NL>>
    /\ fullResponse.currentStatus
           = [type |-> <<"SWITCH">>, title |-> <<"Switch">>,
              status |-> <<"completed">>]
    /\ updates = <<Call(fullResponse.outputText, fullResponse.currentStatus)>>

\* C29: a node-result event of a completed outcome node sets
\* shouldAccumulate to true and currentStatus to null and calls onUpdate once,
\* with the outputText and no status, and puts nothing into outputText; and
\* no node-result event changes outputText, complete, awaitingInput or
\* executionId.
C29_OutcomeNode ==
    [][/\ (NodeStep(<<"completed">>) /\ HeadPayload.nodeType = <<"outcome">>)
           => /\ fullResponse'.shouldAccumulate
              /\ fullResponse'.currentStatus = NoStatus
              /\ updates' = <<Call(fullResponse.outputText, NoStatus)>>
       /\ (DispatchStep /\ HeadEvent.eventType = <<"node-result">>)
           => /\ fullResponse'.outputText = fullResponse.outputText
              /\ fullResponse'.complete = fullResponse.complete
              /\ fullResponse'.awaitingInput = fullResponse.awaitingInput
              /\ fullResponse'.executionId = fullResponse.executionId
      ]_vars

\* a completed outcome node after a pause: the question stays the whole
\* outputText, and the pause and its executionId stay
C29_Witness ==
    /\ received = fAwaitQuestion \o Delimiter \o fOutcomeCompleted \o Delimiter
    /\ pending = <<>>
    /\ fullResponse.shouldAccumulate
    /\ fullResponse.currentStatus = NoStatus
    /\ fullResponse.outputText = <<"Which", SP, "one?">>
    /\ fullResponse.complete /\ fullResponse.awaitingInput
    /\ fullResponse.executionId = <<"E1">>
    /\ updates = <<Call(<<"Which", SP, "one?">>, NoStatus)>>

\* C30: a processEvent call on a frame whose event type is not message,
\* node-result or awaiting-user-input, or on a node-result whose status is
\* neither running nor completed, leaves every field of the accumulator
\* unchanged and calls onUpdate not once.
C30_Ignored ==
    [][(\/ /\ DispatchStep
           /\ HeadEvent.eventType \notin {<<"message">>, <<"node-result">>,
                                          <<"awaiting-user-input">>}
        \/ /\ Dispatching(<<"node-result">>)
           /\ HeadPayload.kind = "object"
           /\ HeadPayload.status \notin {<<"running">>, <<"completed">>})
           => fullResponse' = fullResponse /\ updates' = <<>>]_vars

\* a frame of type note, with a text, ignored while accumulating
C30_Witness ==
    /\ received = fFinHello \o Delimiter \o fNote \o Delimiter
    /\ pending = <<>>
    /\ fullResponse.shouldAccumulate
    /\ fullResponse.outputText = <<"Hello", SP, NL>>
    /\ updates = <<>>

\* C31: a message event whose payload has no text, or an empty one, is
\* skipped: the call leaves the accumulator unchanged, calls onUpdate not
\* once, throws nothing, and the loop goes on to the next frame.
C31_NoTextSkipped ==
    [][(/\ Dispatching(<<"message">>)
        /\ HeadPayload.kind = "object"
        /\ HeadPayload.text \in {Undefined, Null, <<>>})
           => /\ fullResponse' = fullResponse
              /\ updates' = <<>>
              /\ ~caught'
              /\ pc' \in {"reading", "dispatching"}
              /\ pending' = Tail(pending)]_vars

\* a message with an empty text skipped while accumulating
C31_Witness ==
    /\ received = fFinHello \o Delimiter \o fEmptyText \o Delimiter
    /\ pending = <<>>
    /\ fullResponse.outputText = <<"Hello", SP, NL>>
    /\ updates = <<>>
    /\ ~caught

\* the lines of a frame, each trimmed
TrimmedLines(eventText) ==
    [i \in 1..Len(Split(eventText, <<NL>>)) |-> Trim(Split(eventText, <<NL>>)[i])]

\* those that start with the prefix, without it
Remainders(eventText, prefix) ==
    [i \in 1..Len(SelectSeq(TrimmedLines(eventText),
                            LAMBDA l : l # <<>> /\ Head(l) = prefix))
        |-> Tail(SelectSeq(TrimmedLines(eventText),
                           LAMBDA l : l # <<>> /\ Head(l) = prefix)[i])]

\* the event type specified for a frame
TypeOfFrame(eventText) ==
    IF Remainders(eventText, "event:") = <<>> THEN <<"message">>
    ELSE Trim(Remainders(eventText, "event:")
                  [Len(Remainders(eventText, "event:"))])

\* the data specified for a frame
DataOfFrame(eventText) == Join(Remainders(eventText, "data:"), <<NL>>)

\* C32: the event type of a frame is message unless it has event: lines, and
\* then the trimmed rest of the last one; its data is the rests of its data:
\* lines, as they are, joined by newlines in order; other lines count for
\* nothing. A frame with empty data is dropped, with no change of the
\* accumulator and no onUpdate call, and any other frame is handled as an
\* event of that type with that data.
C32_FrameDecoding ==
    [][DispatchStep
           => /\ HeadEvent.eventType = TypeOfFrame(Head(pending))
              /\ HeadEvent.data = DataOfFrame(Head(pending))
              /\ IF DataOfFrame(Head(pending)) = <<>>
                 THEN fullResponse' = fullResponse /\ updates' = <<>>
                 ELSE [fr |-> fullResponse', calls |-> updates', caught |-> caught']
                          = TryParse(TypeOfFrame(Head(pending)),
                                     JSONParse(DataOfFrame(Head(pending))),
                                     fullResponse, cbMode)]_vars

\* a frame without data was dropped, and then a frame with two event: lines
\* was handled as a message with the text "world."
C32_Witness ==
    /\ received = fDataBlank \o Delimiter \o fTwoEvents \o Delimiter
    /\ pending = <<>>
    /\ fullResponse.outputText = <<>>
    /\ updates = <<Call(<<>>, NoStatus)>>

\* C33: in every state of a stream, new or resumed, an executionId that is
\* not null comes with awaitingInput = true.
C33_TokenImpliesAwaiting ==
    fullResponse.executionId \notin {Null, Undefined}
        => fullResponse.awaitingInput

\* C34: every onUpdate call gets the outputText of the moment of the call:
\* the last call of an event the outputText the event leaves, a call before
\* it the outputText the event found. So over a stream each content
\* delivered extends the one before, and the last one delivered is a prefix
\* of the outputText, up to the accumulator returned.
C34_ContentGrows ==
    /\ [][DispatchStep
              => \A i \in 1..Len(updates') :
                     updates'[i].content
                         = IF i = Len(updates') THEN fullResponse'.outputText
                           ELSE fullResponse.outputText]_vars
    /\ [](pc \in {"reading", "dispatching", "done"}
              => /\ \A i \in 1..(Len(log) - 1) :
                        IsPrefix(log[i].content, log[i + 1].content)
                 /\ log # <<>>
                        => IsPrefix(log[Len(log)].content,
                                    fullResponse.outputText))

\* a returned stream that delivered an empty content with a status, then
\* "Hello ", then the whole text
C34_Witness ==
    /\ pc = "done"
    /\ Len(log) = 3
    /\ log[1].content = <<>>
    /\ log[2].content = <<"Hello", SP, NL>>
    /\ log[3].content = <<"Hello", SP, NL, "world.", NL>>
    /\ fullResponse.outputText = log[3].content

\* the fields of an accumulator the caller reads
Fields(fr) ==
    <<fr.outputText, fr.shouldAccumulate, fr.currentStatus, fr.complete,
      fr.awaitingInput, fr.executionId>>

\* C35: the accumulator a stream returns is the one the same frames give
\* with a callback that never throws, whatever the callback did.
C35_CallbackIndependent ==
    pc = "done"
        => Fields(fullResponse)
               = Fields(OneChunk(received, NewResponse(args.executionId),
                                 "never").fr)

\* C36: within a stream complete and awaitingInput, once true, stay true, and
\* awaitingInput = true comes with complete = true in every state. A complete
\* accumulator does not end the consumption: the events still pending are
\* dispatched as before, and the call returns only after the end of the
\* stream has been read and every event dispatched.
C36_Monotone ==
    /\ [][StreamStep
              => /\ fullResponse.complete => fullResponse'.complete
                 /\ fullResponse.awaitingInput => fullResponse'.awaitingInput]_vars
    /\ [](fullResponse.awaitingInput => fullResponse.complete)
    /\ [][(fullResponse.complete /\ pending # <<>> /\ pending' # pending)
              => /\ pending' = Tail(pending)
                 /\ fullResponse'
                        = processEvent(Head(pending), fullResponse, cbMode).fr]_vars
    /\ [][(pc # "done" /\ pc' = "done")
              => eof /\ closed /\ wire = <<>> /\ pending = <<>>]_vars

\* a stream returned after a running node that followed the pause
C36_Witness ==
    /\ pc = "done"
    /\ fullResponse.awaitingInput /\ fullResponse.complete
    /\ fullResponse.currentStatus # NoStatus
    /\ ~fullResponse.shouldAccumulate

\* C37: once the server has closed the connection, so that some read is
\* answered with the end of the stream unless one fails before,
\* processTextMessage returns or throws. Every dispatch takes one event off
\* the events of the chunk, and the loop leaves a read only with text taken
\* off the connection, with the end of the stream, or with the error thrown.
C37_Terminates ==
    /\ closed ~> pc \in {"returned", "failed"}
    /\ [][(pc = "dispatching" /\ fullResponse' # fullResponse /\ pc' # "done")
              => Len(pending') < Len(pending)]_vars
    /\ [][(pc = "reading" /\ pc' # "reading")
              => \/ Len(wire') < Len(wire)
                 \/ ~eof /\ eof'
                 \/ pc' = "failed"]_vars

\* a call returned after a stream of two frames that ended in a pause
C37_Witness ==
    /\ pc = "returned"
    /\ closed /\ eof /\ wire = <<>>
    /\ nFrames = 2
    /\ orch.result.returned
    /\ orch.result.fullResponse.awaitingInput
    /\ orch.result.fullResponse.outputText
           = <<"Hello", SP, NL, NL, NL, "Which", SP, "one?">>

\* C38: the chat never has two processTextMessage calls in flight at once,
\* no submit starts a call while isLoading is true, and the content of an
\* assistant placeholder is only ever written by the call it was added for.
C38_OneCallInFlight ==
    /\ [](Cardinality(InFlight(ui)) <= 1)
    /\ [][ui.isLoading => Len(ui'.calls) = Len(ui.calls)]_vars
    /\ [](\A k \in 1..Len(ui.messages) :
              ui.messages[k].content \in {0, ui.messages[k].owner})

\* the token of the call before this submit, when that call returned paused
Expected(u) ==
    IF u.calls = <<>> THEN Null
    ELSE IF /\ u.calls[Len(u.calls)].state = "returned"
            /\ u.calls[Len(u.calls)].awaitingInput
            /\ Truthy(u.calls[Len(u.calls)].executionId)
         THEN u.calls[Len(u.calls)].executionId
         ELSE Null

\* C39: under sequential use (no call started while another was in flight)
\* and with no handleGoHome since the submit before, a submit passes to
\* processTextMessage the executionId the immediately preceding call
\* returned with awaitingInput, and no token when that call did not return
\* so (or there was none); the token it passes was passed to no call before.
C39_TokenThreading ==
    [][(/\ Len(ui'.calls) = Len(ui.calls) + 1
        /\ ui'.sequential
        /\ ui.calls = <<>> \/ ~ui.home)
           => /\ ui'.calls[Len(ui'.calls)].token = Expected(ui)
              /\ \A i \in 1..Len(ui.calls) :
                    Truthy(ui.calls[i].token)
                        => ui.calls[i].token # ui'.calls[Len(ui'.calls)].token]_vars

\* three calls one after the other and never a handleGoHome: the first
\* paused, the second resumed it with its token and threw, the third passed
\* no token
C39_Witness ==
    /\ ui.sequential
    /\ Len(ui.calls) = 3 /\ Len(ui.messages) = 3
    /\ ui.calls[1].state = "returned" /\ ui.calls[1].awaitingInput
    /\ ui.calls[2].token = Token(1)
    /\ ui.calls[2].state = "failed"
    /\ ui.calls[3].token = Null

\* C40: after handleGoHome pendingExecutionId is null until the next submit
\* of a message, also when a call in flight settles afterwards.
C40_HomeClearsPending ==
    ui.home => ui.pendingExecutionId = Null

====
